---- MODULE Spec2Model ----
(***************************************************************************)
(* Model of the temporal patch sampler of scripts/vicreg_dataset.py        *)
(* (ComputeVicRegData, does_overlap) and of the collaborators it calls.    *)
(*                                                                         *)
(* Numbers.  Lengths are fixed-point integers (1 unit = 0.0001 m), so the  *)
(* camera offset (0.2286, 0, 0.5715) is <<2286, 0, 5715>>.  A homography   *)
(* is a record [m, den] standing for the real matrix m / den, m an integer *)
(* 3x3 matrix; a transformed coordinate is a rational [num, den], den > 0. *)
(* Matrices are tuples of rows.                                            *)
(***************************************************************************)
EXTENDS Integers, Sequences, FiniteSets, TLC

(***************************************************************************)
(* Bounds of the model.                                                    *)
(***************************************************************************)
MaxTimesteps == 4
MaxHistory == 3
BoxMax == 2

VARIABLES
    pc,               \* position in ComputeVicRegData: "loop", "past", "done", "idle"
    aliased,          \* TRUE: getOdomAtTimestep hands back the stored matrix itself
    n_timesteps,      \* robot_data.getNTimesteps()
    history_size,     \* argument history_size
    patch_size,       \* argument patch_size, <<width, height>>
    odom,             \* the data source's stored poses, timestep -> [R, T]
    odom_raw,         \* the stored poses as they were before the call (history)
    timestep,         \* outer loop variable
    past_hist,        \* inner loop variable
    cur_rt,           \* the matrix object bound to cur_rt (T_cur is a view of it)
    cur_rt_ret,       \* its value when getOdomAtTimestep returned it (history)
    past_rt,          \* the matrix object bound to past_rt (T_past is a view of it)
    past_rt_ret,      \* its value when getOdomAtTimestep returned it (history)
    T_rel,            \* last computed T_rel
    R_rel,            \* last computed R_rel
    timestep_patches, \* list under construction for the current timestep
    patches,          \* result list
    evals,            \* per processed timestep, per offset: what the inner loop computed (history)
    H,                \* argument H, the calibrated homography
    K,                \* argument K, the intrinsics
    plane_normal,     \* argument plane_normal
    plane_distance,   \* argument plane_distance
    fn_in,            \* input of a pure function under check
    fn_out,           \* <<>> before the function is applied, <<result>> after
    calib,            \* HomographyFromChessboardImage under construction, <<>> when unused
    cache,            \* runs of the vicreg_dataset main program, <<>> when unused
    bev,              \* a call of plot_BEV_full, <<>> when unused
    train             \* a SterlingModel in training, <<>> when unused

svars == <<pc, aliased, n_timesteps, history_size, patch_size, odom, odom_raw,
           timestep, past_hist, cur_rt, cur_rt_ret, past_rt, past_rt_ret,
           T_rel, R_rel, timestep_patches, patches, evals>>
cvars == <<H, K, plane_normal, plane_distance>>
fvars == <<fn_in, fn_out>>
xvars == <<calib, cache, bev, train>>
vars == <<svars, cvars, fvars, xvars>>

(***************************************************************************)
(* Linear algebra on integer tuples (numpy's @, .T, +, -).                 *)
(***************************************************************************)
I3 == <<<<1, 0, 0>>, <<0, 1, 0>>, <<0, 0, 1>>>>
Zero3 == <<0, 0, 0>>

Dot(u, v) == u[1] * v[1] + u[2] * v[2] + u[3] * v[3]
Col(A, j) == <<A[1][j], A[2][j], A[3][j]>>
Transpose(A) == <<Col(A, 1), Col(A, 2), Col(A, 3)>>
MatVec(A, v) == <<Dot(A[1], v), Dot(A[2], v), Dot(A[3], v)>>
MatMul(A, B) == [i \in 1..3 |-> [j \in 1..3 |-> Dot(A[i], Col(B, j))]]
MatSub(A, B) == [i \in 1..3 |-> [j \in 1..3 |-> A[i][j] - B[i][j]]]
MatScale(c, A) == [i \in 1..3 |-> [j \in 1..3 |-> c * A[i][j]]]
Outer(u, v) == [i \in 1..3 |-> [j \in 1..3 |-> u[i] * v[j]]]
VecAdd(u, v) == <<u[1] + v[1], u[2] + v[2], u[3] + v[3]>>
VecSub(u, v) == <<u[1] - v[1], u[2] - v[2], u[3] - v[3]>>

(***************************************************************************)
(* Rationals with positive denominator.                                    *)
(***************************************************************************)
Rat(n, d) == IF d < 0 THEN [num |-> -n, den |-> -d] ELSE [num |-> n, den |-> d]
RatLeq(a, b) == a.num * b.den <= b.num * a.den
RatMin(S) == CHOOSE a \in S : \A b \in S : RatLeq(a, b)
RatMax(S) == CHOOSE a \in S : \A b \in S : RatLeq(b, a)


Det(A) ==
    A[1][1] * (A[2][2] * A[3][3] - A[2][3] * A[3][2])
    - A[1][2] * (A[2][1] * A[3][3] - A[2][3] * A[3][1])
    + A[1][3] * (A[2][1] * A[3][2] - A[2][2] * A[3][1])

\* Adj(A) / Det(A) is the inverse of A.
Adj(A) ==
    <<<<A[2][2] * A[3][3] - A[2][3] * A[3][2],
        A[1][3] * A[3][2] - A[1][2] * A[3][3],
        A[1][2] * A[2][3] - A[1][3] * A[2][2]>>,
      <<A[2][3] * A[3][1] - A[2][1] * A[3][3],
        A[1][1] * A[3][3] - A[1][3] * A[3][1],
        A[1][3] * A[2][1] - A[1][1] * A[2][3]>>,
      <<A[2][1] * A[3][2] - A[2][2] * A[3][1],
        A[1][2] * A[3][1] - A[1][1] * A[3][2],
        A[1][1] * A[2][2] - A[1][2] * A[2][1]>>>>

(***************************************************************************)
(* Inputs of ComputeVicRegData.                                            *)
(***************************************************************************)
Rz90 == <<<<0, -1, 0>>, <<1, 0, 0>>, <<0, 0, 1>>>>

\* Poses the odometry source may hold (rotation, translation).
PoseSet ==
    { [R |-> I3, T |-> <<0, 0, 0>>],
      [R |-> I3, T |-> <<1000, 0, 0>>],
      [R |-> I3, T |-> <<0, 1750, 0>>],
      [R |-> Rz90, T |-> <<3000, 0, 500>>] }

\* Calibration results handed to ComputeVicRegData: H, K, plane_normal, plane_distance.
Calibrations ==
    { [H |-> [m |-> <<<<2, 0, 1>>, <<0, 2, 0>>, <<0, 0, 1>>>>, den |-> 1],
       K |-> <<<<2, 0, 1>>, <<0, 2, 1>>, <<0, 0, 1>>>>,
       plane_normal |-> <<0, 0, 1>>,
       plane_distance |-> 1000] }

PatchSizes == {<<2, 3>>}

ImageShape == <<4, 6, 3>>

(***************************************************************************)
(* Collaborators.                                                          *)
(***************************************************************************)
\* robot_data.getImageAtTimestep(t): the frame of timestep t.
getImageAtTimestep(t) == [id |-> t, shape |-> ImageShape]

\* robot_data.getOdomAtTimestep(t): the pose of timestep t.
getOdomAtTimestep(store, t) == store[t]

\* H = K (R - T n^T / d) K^-1, kept as numerator matrix and denominator.
compute_homography_from_rt(Kc, R, T, n, d) ==
    [m |-> MatMul(MatMul(Kc, MatSub(MatScale(d, R), Outer(T, n))), Adj(Kc)),
     den |-> d * Det(Kc)]

\* A @ B for homographies.
HomMul(A, B) == [m |-> MatMul(A.m, B.m), den |-> A.den * B.den]

\* cv2.perspectiveTransform on one point: divide by w, 0 where w = 0.
perspectivePoint(p, Hm) ==
    LET v == MatVec(Hm.m, <<p[1], p[2], 1>>)
    IN  IF v[3] = 0
        THEN <<Rat(0, 1), Rat(0, 1)>>
        ELSE <<Rat(v[1], v[3]), Rat(v[2], v[3])>>

perspectiveTransform(pts, Hm) == [i \in DOMAIN pts |-> perspectivePoint(pts[i], Hm)]

\* cv2.warpPerspective(image, H, dsize=(w, h)): h rows, w columns.
warpPerspective(image, Hm, dsize) ==
    [image |-> image.id, H |-> Hm, shape |-> <<dsize[2], dsize[1], image.shape[3]>>]

\* cv2.resize(patch, (w, h)): h rows, w columns.
resize(patch, dsize) ==
    [patch EXCEPT !.shape = <<dsize[2], dsize[1], patch.shape[3]>>]

(***************************************************************************)
(* ComputeVicRegData: the pieces of its body.                              *)
(***************************************************************************)
\* Static transform offset from odometry to camera frame.
camera_offset == <<2286, 0, 5715>>

\* Faulty variant: range(0, n_timesteps), every timestep processed.
range_timesteps_from_zero(hs, n) == [start |-> 0, stop |-> n]

\* range(history_size, n_timesteps)
range_timesteps(hs, n) == [start |-> hs, stop |-> n]

\* Faulty variant: range(1, history_size + 1).
range_past_inclusive(hs) == [start |-> 1, stop |-> hs + 1]

\* range(1, history_size)
range_past(hs) == [start |-> 1, stop |-> hs]

\* T += camera_offset
add_camera_offset(T) == VecAdd(T, camera_offset)

\* R_cur @ R_past, the transpose left out.
rel_rotation_no_transpose(R_cur, R_past) == MatMul(R_cur, R_past)

\* R_rel = R_cur.T @ R_past
rel_rotation(R_cur, R_past) == MatMul(Transpose(R_cur), R_past)

\* T_rel = R_cur.T @ (T_past - T_cur)
rel_translation(R_cur, T_cur, T_past) == MatVec(Transpose(R_cur), VecSub(T_past, T_cur))

\* Python's int() of a number: truncation toward zero.
int(x) == IF x.num >= 0 THEN x.num \div x.den ELSE -((-x.num) \div x.den)

\* cur_bbox = [0, 0, patch_size[0], patch_size[1]]
cur_bbox_of(ps) == <<0, 0, ps[1], ps[2]>>

\* The four corners of the patch rectangle.
past_bbox_corners(ps) == <<<<0, 0>>, <<ps[1], 0>>, <<ps[1], ps[2]>>, <<0, ps[2]>>>>

\* [x_min, y_min, x_max, y_max] of the transformed corners, each through int().
past_bbox_of(tc) ==
    LET xs == {tc[i][1] : i \in DOMAIN tc}
        ys == {tc[i][2] : i \in DOMAIN tc}
    IN  <<int(RatMin(xs)), int(RatMin(ys)), int(RatMax(xs)), int(RatMax(ys))>>

\* Faulty variant: the vertical tests are left out.
does_overlap_y_ignored(cur_bbox, past_bbox) ==
    ~(cur_bbox[3] < past_bbox[1] \/ past_bbox[3] < cur_bbox[1])

\* Faulty variant: boxes that only touch do not overlap.
does_overlap_strict(cur_bbox, past_bbox) ==
    ~(\/ cur_bbox[3] <= past_bbox[1]
      \/ past_bbox[3] <= cur_bbox[1]
      \/ cur_bbox[4] <= past_bbox[2]
      \/ past_bbox[4] <= cur_bbox[2])

\* Faulty variant: a past box starting at the right edge does not overlap.
does_overlap_right_open(cur_bbox, past_bbox) ==
    ~(\/ cur_bbox[3] <= past_bbox[1]
      \/ past_bbox[3] < cur_bbox[1]
      \/ cur_bbox[4] < past_bbox[2]
      \/ past_bbox[4] < cur_bbox[2])

\* Faulty variant: the second test compares the past box with itself.
does_overlap_one_sided(cur_bbox, past_bbox) ==
    ~(\/ cur_bbox[3] < past_bbox[1]
      \/ past_bbox[3] < past_bbox[1]
      \/ cur_bbox[4] < past_bbox[2]
      \/ past_bbox[4] < cur_bbox[2])

does_overlap(cur_bbox, past_bbox) ==
    LET x_min_cur == cur_bbox[1]
        y_min_cur == cur_bbox[2]
        x_max_cur == cur_bbox[3]
        y_max_cur == cur_bbox[4]
        x_min_past == past_bbox[1]
        y_min_past == past_bbox[2]
        x_max_past == past_bbox[3]
        y_max_past == past_bbox[4]
    IN  ~(\/ x_max_cur < x_min_past
          \/ x_max_past < x_min_cur
          \/ y_max_cur < y_min_past
          \/ y_max_past < y_min_cur)

\* if patch.shape != patch_size: patch = cv2.resize(patch, patch_size)
sized(patch, ps) == IF patch.shape # ps THEN resize(patch, ps) ELSE patch

\* Faulty variant: timestep_patches.insert(0, patch).
prepend_patch(list, patch) == <<patch>> \o list

\* timestep_patches.append(patch)
append_patch(list, patch) == Append(list, patch)

NoPose == [R |-> I3, T |-> Zero3]

(***************************************************************************)
(* ComputeVicRegData as a state machine.                                   *)
(***************************************************************************)
Idle ==
    /\ aliased = FALSE
    /\ n_timesteps = 0
    /\ history_size = 1
    /\ patch_size \in PatchSizes
    /\ \A ps \in PatchSizes : ps[1] + ps[2] >= patch_size[1] + patch_size[2]
    /\ odom = <<>>
    /\ odom_raw = odom
    /\ timestep = 0
    /\ past_hist = 0
    /\ cur_rt = NoPose
    /\ cur_rt_ret = NoPose
    /\ past_rt = NoPose
    /\ past_rt_ret = NoPose
    /\ T_rel = Zero3
    /\ R_rel = I3
    /\ timestep_patches = <<>>
    /\ patches = <<>>
    /\ evals = <<>>

InitCalibration ==
    \E c \in Calibrations :
        /\ H = c.H
        /\ K = c.K
        /\ plane_normal = c.plane_normal
        /\ plane_distance = c.plane_distance

\* Lines 16-18: the call, before the first iteration.
Init ==
    /\ pc = "loop"
    /\ aliased \in BOOLEAN
    /\ n_timesteps \in 0..MaxTimesteps
    /\ history_size \in 1..MaxHistory
    /\ patch_size \in PatchSizes
    /\ odom \in [0..(n_timesteps - 1) -> PoseSet]
    /\ odom_raw = odom
    /\ timestep = range_timesteps(history_size, n_timesteps).start
    /\ past_hist = 0
    /\ cur_rt = NoPose
    /\ cur_rt_ret = NoPose
    /\ past_rt = NoPose
    /\ past_rt_ret = NoPose
    /\ T_rel = Zero3
    /\ R_rel = I3
    /\ timestep_patches = <<>>
    /\ patches = <<>>
    /\ evals = <<>>
    /\ calib = <<>>
    /\ cache = <<>>
    /\ bev = <<>>
    /\ InitCalibration
    /\ fn_in = <<>>
    /\ fn_out = <<>>
    /\ train = <<>>

\* Lines 20-38: one iteration of the outer loop up to the inner loop.
LoopTimestep ==
    /\ pc = "loop"
    /\ timestep < range_timesteps(history_size, n_timesteps).stop
    /\ LET cur_image == getImageAtTimestep(timestep)
           ret == getOdomAtTimestep(odom, timestep)
           new == [ret EXCEPT !.T = add_camera_offset(ret.T)]
           cur_patch == sized(warpPerspective(cur_image, H, patch_size), patch_size)
       IN  /\ cur_rt' = new
           /\ cur_rt_ret' = ret
           /\ odom' = IF aliased THEN [odom EXCEPT ![timestep] = new] ELSE odom
           /\ timestep_patches' = append_patch(<<>>, cur_patch)
    /\ evals' = Append(evals, <<>>)
    /\ past_hist' = range_past(history_size).start
    /\ pc' = "past"
    /\ UNCHANGED <<aliased, n_timesteps, history_size, patch_size, odom_raw, timestep,
                   past_rt, past_rt_ret, T_rel, R_rel, patches, cvars, fvars, xvars>>

\* The left operand holds the product afterwards.
operand_overwritten(operand, product) == product

\* Line 58 (and line 240 of homography_from_chessboard.py): a @ b builds a
\* new array and is bound to a new name; the operand keeps its value.
operand_after_matmul(operand, product) == operand

\* Lines 42-81: one iteration of the inner loop.
PastHist ==
    /\ pc = "past"
    /\ past_hist < range_past(history_size).stop
    /\ LET past_timestep == timestep - past_hist
       IN  IF past_timestep < 0
           THEN UNCHANGED <<odom, past_rt, past_rt_ret, T_rel, R_rel,
                            timestep_patches, evals, H>>
           ELSE LET past_image == getImageAtTimestep(past_timestep)
                    ret == getOdomAtTimestep(odom, past_timestep)
                    new == [ret EXCEPT !.T = add_camera_offset(ret.T)]
                    Rr == rel_rotation(cur_rt.R, new.R)
                    Tr == rel_translation(cur_rt.R, cur_rt.T, new.T)
                    H_past2cur == compute_homography_from_rt(K, Rr, Tr, plane_normal,
                                                             plane_distance)
                    H_past2patch == HomMul(H, H_past2cur)
                    transformed_corners ==
                        perspectiveTransform(past_bbox_corners(patch_size), H_past2cur)
                    past_bbox == past_bbox_of(transformed_corners)
                    past_patch ==
                        sized(warpPerspective(past_image, H_past2patch, patch_size),
                              patch_size)
                IN  /\ H' = operand_after_matmul(H, H_past2patch)
                    /\ past_rt' = new
                    /\ past_rt_ret' = ret
                    /\ odom' = IF aliased
                               THEN [odom EXCEPT ![past_timestep] = new]
                               ELSE odom
                    /\ R_rel' = Rr
                    /\ T_rel' = Tr
                    /\ evals' = [evals EXCEPT ![Len(evals)] =
                                    Append(@, [hist |-> past_hist,
                                               R_cur |-> cur_rt.R,
                                               R_past |-> new.R,
                                               R_rel |-> Rr,
                                               T_cur |-> cur_rt.T,
                                               T_past |-> new.T,
                                               T_rel |-> Tr,
                                               H_past2cur |-> H_past2cur,
                                               H_past2patch |-> H_past2patch,
                                               corners |-> transformed_corners,
                                               bbox |-> past_bbox])]
                    /\ timestep_patches' =
                           IF does_overlap(cur_bbox_of(patch_size), past_bbox)
                           THEN append_patch(timestep_patches, past_patch)
                           ELSE timestep_patches
    /\ past_hist' = past_hist + 1
    /\ UNCHANGED <<pc, aliased, n_timesteps, history_size, patch_size, odom_raw, timestep,
                   cur_rt, cur_rt_ret, patches, K, plane_normal, plane_distance,
                   fvars, xvars>>

\* Line 83: patches.append(timestep_patches), and on to the next timestep.
AppendTimestep ==
    /\ pc = "past"
    /\ past_hist >= range_past(history_size).stop
    /\ patches' = Append(patches, timestep_patches)
    /\ timestep' = timestep + 1
    /\ pc' = "loop"
    /\ UNCHANGED <<aliased, n_timesteps, history_size, patch_size, odom, odom_raw,
                   past_hist, cur_rt, cur_rt_ret, past_rt, past_rt_ret, T_rel, R_rel,
                   timestep_patches, evals, cvars, fvars, xvars>>

\* Line 85: return patches.
Return ==
    /\ pc = "loop"
    /\ timestep >= range_timesteps(history_size, n_timesteps).stop
    /\ pc' = "done"
    /\ UNCHANGED <<aliased, n_timesteps, history_size, patch_size, odom, odom_raw,
                   timestep, past_hist, cur_rt, cur_rt_ret, past_rt, past_rt_ret,
                   T_rel, R_rel, timestep_patches, patches, evals, cvars, fvars, xvars>>

Next == LoopTimestep \/ PastHist \/ AppendTimestep \/ Return

Spec == Init /\ [][Next]_vars

(***************************************************************************)
(* does_overlap applied to pairs of boxes.                                 *)
(***************************************************************************)
\* Boxes [xmin, ymin, xmax, ymax] with xmin <= xmax and ymin <= ymax.
Boxes ==
    {b \in (0..BoxMax) \X (0..BoxMax) \X (0..BoxMax) \X (0..BoxMax) :
        b[1] <= b[3] /\ b[2] <= b[4]}

InitOverlap ==
    /\ pc = "idle"
    /\ Idle
    /\ InitCalibration
    /\ fn_in \in [f : {"does_overlap"}, A : Boxes, B : Boxes]
    /\ fn_out = <<>>
    /\ calib = <<>>
    /\ cache = <<>>
    /\ bev = <<>>
    /\ train = <<>>

\* Calls does_overlap(A, B) and does_overlap(B, A).
ApplyOverlap ==
    /\ pc = "idle"
    /\ fn_in.f = "does_overlap"
    /\ fn_out = <<>>
    /\ fn_out' = <<does_overlap(fn_in.A, fn_in.B), does_overlap(fn_in.B, fn_in.A)>>
    /\ UNCHANGED <<svars, cvars, fn_in, xvars>>

NextOverlap == ApplyOverlap

SpecOverlap == InitOverlap /\ [][NextOverlap]_vars

(***************************************************************************)
(* Vocabulary of the properties.                                           *)
(***************************************************************************)
\* The per-timestep lists built so far, the one under construction included.
AllLists == patches \o (IF pc = "past" THEN <<timestep_patches>> ELSE <<>>)

MaxOf(a, b) == IF a >= b THEN a ELSE b
MinOf(a, b) == IF a <= b THEN a ELSE b

\* The closed intervals [a1, a2] and [b1, b2] have a common point.
IntervalsMeet(a1, a2, b1, b2) == MaxOf(a1, b1) <= MinOf(a2, b2)

\* The closed rectangles A and B have a common point.
BoxesMeet(A, B) ==
    /\ IntervalsMeet(A[1], A[3], B[1], B[3])
    /\ IntervalsMeet(A[2], A[4], B[2], B[4])

\* The common points of A and B all lie on an edge of A: contact without area.
TouchOnly(A, B) ==
    /\ BoxesMeet(A, B)
    /\ \/ B[3] = A[1]
       \/ B[1] = A[3]
       \/ B[4] = A[2]
       \/ B[2] = A[4]

\* The timestep list i belongs to: the frame its first patch was cut from.
ListTimestep(i) == AllLists[i][1].image

\* List i holds a patch cut from the frame h steps before the list's timestep.
Emitted(i, h) ==
    \E k \in 2..Len(AllLists[i]) : AllLists[i][k].image = ListTimestep(i) - h

\* The offset of the k-th patch of list i.
OffsetOf(i, k) == ListTimestep(i) - AllLists[i][k].image

(***************************************************************************)
(* C1: for every processed timestep and every history offset h in          *)
(* 1..history_size-1, the patch of frame t-h is in t's list exactly when   *)
(* the anchor box and the past box overlap; an offset that does not        *)
(* overlap emits nothing and the later offsets are still evaluated: every  *)
(* finished list has had all of 1..history_size-1 evaluated.               *)
(***************************************************************************)
C1_IncludedIffOverlap ==
    \A i \in DOMAIN AllLists :
        /\ i \in DOMAIN evals
        /\ \A j \in DOMAIN evals[i] :
               Emitted(i, evals[i][j].hist)
                   <=> BoxesMeet(cur_bbox_of(patch_size), evals[i][j].bbox)
        /\ \A k \in 2..Len(AllLists[i]) :
               \E j \in DOMAIN evals[i] : evals[i][j].hist = OffsetOf(i, k)
        /\ i \in DOMAIN patches =>
               [j \in DOMAIN evals[i] |-> evals[i][j].hist]
                   = [j \in 1..(history_size - 1) |-> j]

\* A finished list in which offset 1 did not overlap and offset 2 was emitted.
C1_Witness ==
    \E i \in DOMAIN patches :
        /\ Len(evals[i]) >= 2
        /\ ~BoxesMeet(cur_bbox_of(patch_size), evals[i][1].bbox)
        /\ ~Emitted(i, 1)
        /\ Emitted(i, 2)

(***************************************************************************)
(* C2: does_overlap(A, B) is NOT (xmaxA < xminB OR xmaxB < xminA OR        *)
(* ymaxA < yminB OR ymaxB < yminA), which is true exactly when the closed  *)
(* x-intervals have a common point and the closed y-intervals have one.    *)
(***************************************************************************)
C2_OverlapIsClosedIntersection ==
    fn_out # <<>> =>
        LET A == fn_in.A
            B == fn_in.B
        IN  /\ fn_out[1] = ~(A[3] < B[1] \/ B[3] < A[1] \/ A[4] < B[2] \/ B[4] < A[2])
            /\ fn_out[1] = (/\ \E x \in 0..BoxMax : A[1] <= x /\ x <= A[3]
                                                   /\ B[1] <= x /\ x <= B[3]
                            /\ \E y \in 0..BoxMax : A[2] <= y /\ y <= A[4]
                                                   /\ B[2] <= y /\ y <= B[4])

\* does_overlap has answered TRUE for two boxes with a single common point.
C2_Witness ==
    /\ fn_out # <<>>
    /\ fn_out[1]
    /\ fn_in.A[3] = fn_in.B[1]
    /\ fn_in.A[4] = fn_in.B[2]
    /\ fn_in.A[1] < fn_in.A[3]
    /\ fn_in.B[2] < fn_in.B[4]

(***************************************************************************)
(* C3: boxes that only touch overlap: does_overlap([0,0,10,10],            *)
(* [10,0,20,10]) is true, and a past frame whose integer bounding box      *)
(* only touches the anchor box [0,0,W,H] is emitted.                       *)
(***************************************************************************)
C3_TouchingIsIncluded ==
    /\ does_overlap(<<0, 0, 10, 10>>, <<10, 0, 20, 10>>)
    /\ \A i \in DOMAIN AllLists :
           \A j \in DOMAIN evals[i] :
               TouchOnly(cur_bbox_of(patch_size), evals[i][j].bbox)
                   => Emitted(i, evals[i][j].hist)

\* A past frame whose box starts at the anchor's right edge has been emitted.
C3_Witness ==
    \E i \in DOMAIN AllLists :
        \E j \in DOMAIN evals[i] :
            /\ evals[i][j].bbox[1] = patch_size[1]
            /\ TouchOnly(cur_bbox_of(patch_size), evals[i][j].bbox)
            /\ Emitted(i, evals[i][j].hist)

(***************************************************************************)
(* C4: does_overlap is symmetric: does_overlap(A, B) = does_overlap(B, A). *)
(***************************************************************************)
C4_OverlapSymmetric ==
    fn_out # <<>> => fn_out[1] = fn_out[2]

\* Both calls have been made on two different boxes that do not overlap.
C4_Witness ==
    /\ fn_out # <<>>
    /\ fn_in.A # fn_in.B
    /\ ~fn_out[1]
    /\ ~fn_out[2]


(***************************************************************************)
(* C5: every per-timestep list of the result holds at least 1 patch (the   *)
(* anchor) and at most history_size patches, and strictly fewer than       *)
(* history_size whenever at least one offset failed the overlap test.      *)
(***************************************************************************)
C5_HistoryBound ==
    \A i \in DOMAIN patches :
        /\ 1 <= Len(patches[i])
        /\ Len(patches[i]) <= history_size
        /\ (\E j \in DOMAIN evals[i] :
                ~BoxesMeet(cur_bbox_of(patch_size), evals[i][j].bbox))
               => Len(patches[i]) < history_size

\* The result holds a full list of history_size >= 2 patches and a shorter one.
C5_Witness ==
    /\ pc = "done"
    /\ history_size >= 2
    /\ \E i \in DOMAIN patches : Len(patches[i]) = history_size
    /\ \E i \in DOMAIN patches :
           /\ Len(patches[i]) < history_size
           /\ \E j \in DOMAIN evals[i] :
                  ~BoxesMeet(cur_bbox_of(patch_size), evals[i][j].bbox)

(***************************************************************************)
(* C6: in every per-timestep list the first element is the anchor patch of *)
(* that timestep (its frame warped through H), the remaining elements are  *)
(* past patches in strictly increasing offset order h = 1, 2, 3, ..., and  *)
(* every patch has the requested patch_size (width, height).               *)
(***************************************************************************)
C6_AnchorFirstThenRecency ==
    \A i \in DOMAIN AllLists :
        LET L == AllLists[i]
            t == history_size + i - 1
        IN  /\ Len(L) >= 1
            /\ L[1].image = t
            /\ L[1].H = H
            /\ \A k \in 2..Len(L) : t - L[k].image \in 1..(history_size - 1)
            /\ \A k1, k2 \in 2..Len(L) :
                   k1 < k2 => t - L[k1].image < t - L[k2].image
            /\ \A k \in 1..Len(L) :
                   /\ L[k].shape[2] = patch_size[1]
                   /\ L[k].shape[1] = patch_size[2]

\* A finished list holding the anchor and the patches of offsets 1 and 2.
C6_Witness ==
    \E i \in DOMAIN patches :
        /\ Len(patches[i]) = 3
        /\ patches[i][2].image = patches[i][1].image - 1
        /\ patches[i][3].image = patches[i][1].image - 2

(***************************************************************************)
(* C7: the timesteps history_size, ..., n_timesteps-1 are processed in     *)
(* increasing order, one list each: the i-th list (from 0) belongs to      *)
(* timestep history_size+i, the result has max(0, n_timesteps -            *)
(* history_size) lists, none when n_timesteps <= history_size.             *)
(***************************************************************************)
C7_TimestepsProcessed ==
    /\ \A i \in DOMAIN patches : patches[i][1].image = history_size + (i - 1)
    /\ pc = "loop" => timestep = history_size + Len(patches)
    /\ pc = "done" =>
           Len(patches) = (IF n_timesteps > history_size
                           THEN n_timesteps - history_size
                           ELSE 0)

\* The call has returned two lists.
C7_Witness ==
    /\ pc = "done"
    /\ Len(patches) = 2
    /\ n_timesteps = history_size + 2

(***************************************************************************)
(* C8: ComputeVicRegData never modifies a pose matrix obtained from the    *)
(* data source: every matrix returned by getOdomAtTimestep still holds the *)
(* values it had when it was returned, its translation column included.    *)
(***************************************************************************)
C8_PosesNeverModified ==
    /\ cur_rt = cur_rt_ret
    /\ past_rt = past_rt_ret

(***************************************************************************)
(* C9: whenever T_rel is computed for a pair (t, t-h), the camera offset   *)
(* has been added exactly once to T_cur and exactly once to T_past, so     *)
(* that T_rel = R_cur^T (T_past_raw - T_cur_raw), also when the data       *)
(* source hands back the same stored matrix at every request.              *)
(***************************************************************************)
C9_OffsetCancels ==
    \A i \in DOMAIN evals :
        \A j \in DOMAIN evals[i] :
            LET e == evals[i][j]
                t == history_size + i - 1
                p == t - e.hist
            IN  /\ e.T_cur = VecAdd(odom_raw[t].T, camera_offset)
                /\ e.T_past = VecAdd(odom_raw[p].T, camera_offset)
                /\ e.T_rel = MatVec(Transpose(odom_raw[t].R),
                                    VecSub(odom_raw[p].T, odom_raw[t].T))

(***************************************************************************)
(* C10: a past frame is emitted only if the bounding box of its four       *)
(* transformed corners (minimum and maximum of the transformed             *)
(* coordinates, as rationals) overlaps the anchor rectangle [0,0,W,H]      *)
(* under the inclusive rule; a footprint lying wholly at x < 0, y < 0,     *)
(* x > W or y > H is not emitted.                                          *)
(***************************************************************************)
C10_EmittedOnlyIfFootprintMeets ==
    \A i \in DOMAIN AllLists :
        \A j \in DOMAIN evals[i] :
            LET e == evals[i][j]
                xs == {e.corners[c][1] : c \in DOMAIN e.corners}
                ys == {e.corners[c][2] : c \in DOMAIN e.corners}
            IN  Emitted(i, e.hist) =>
                    /\ RatLeq(Rat(0, 1), RatMax(xs))
                    /\ RatLeq(RatMin(xs), Rat(patch_size[1], 1))
                    /\ RatLeq(Rat(0, 1), RatMax(ys))
                    /\ RatLeq(RatMin(ys), Rat(patch_size[2], 1))

(***************************************************************************)
(* homography.py: cart_to_hom and hom_to_cart.  A point array is a tuple   *)
(* of rows, one column per point (shape 2 x N or 3 x N).  A quotient of    *)
(* numpy is a record [num, den]: den > 0 is the finite value num / den,    *)
(* den = 0 is what the division by zero yields (num = 1: inf, num = -1:    *)
(* -inf, num = 0: nan).                                                    *)
(***************************************************************************)
MaxPts == 2
CoordMax == 1

Coords == (0 - CoordMax)..CoordMax

\* All k x n arrays over Coords.
Arrays(k, n) == [1..k -> [1..n -> Coords]]

\* points.shape[1]
n_cols(points) == IF Len(points) = 0 THEN 0 ELSE Len(points[1])

Sign(x) == IF x > 0 THEN 1 ELSE IF x < 0 THEN -1 ELSE 0

\* x / w of numpy: no exception on w = 0 (a RuntimeWarning only).
np_divide(x, w) == IF w = 0 THEN [num |-> Sign(x), den |-> 0] ELSE Rat(x, w)

IsFinite(q) == q.den # 0

\* q is finite and has the value of the number x.
RatIs(q, x) == IsFinite(q) /\ q.num = x * q.den

\* A row of twos in place of the row of ones.
cart_to_hom_twos(points) == Append(points, [j \in 1..n_cols(points) |-> 2])

\* Lines 210-212: np.vstack((points, row_of_ones)).
cart_to_hom(points) == Append(points, [j \in 1..n_cols(points) |-> 1])

\* Lines 214-217: w = points[-1]; cart_pts = points / w; return cart_pts[:-1].
hom_to_cart(points) ==
    LET w == points[Len(points)]
        cart_pts == [i \in 1..Len(points) |->
                        [j \in 1..n_cols(points) |-> np_divide(points[i][j], w[j])]]
    IN  SubSeq(cart_pts, 1, Len(points) - 1)

\* How a call ended: the exception raised ("none": it returned) and the value.
Returned(v) == [raised |-> "none", value |-> v]

InitHomCart ==
    /\ pc = "idle"
    /\ Idle
    /\ InitCalibration
    /\ \E n \in 0..MaxPts :
          \/ fn_in \in [f : {"round_trip"}, points : Arrays(2, n)]
          \/ fn_in \in [f : {"hom_to_cart"}, points : Arrays(3, n)]
    /\ fn_out = <<>>
    /\ calib = <<>>
    /\ cache = <<>>
    /\ bev = <<>>
    /\ train = <<>>

\* hom_to_cart(cart_to_hom(points))
ApplyRoundTrip ==
    /\ pc = "idle"
    /\ fn_in.f = "round_trip"
    /\ fn_out = <<>>
    /\ fn_out' = <<Returned(hom_to_cart(cart_to_hom(fn_in.points)))>>
    /\ UNCHANGED <<svars, cvars, fn_in, xvars>>

\* hom_to_cart(points) on homogeneous points of any w.
ApplyHomToCart ==
    /\ pc = "idle"
    /\ fn_in.f = "hom_to_cart"
    /\ fn_out = <<>>
    /\ fn_out' = <<Returned(hom_to_cart(fn_in.points))>>
    /\ UNCHANGED <<svars, cvars, fn_in, xvars>>

NextHomCart == ApplyRoundTrip \/ ApplyHomToCart

SpecHomCart == InitHomCart /\ [][NextHomCart]_vars

(***************************************************************************)
(* C13: hom_to_cart on an array with a point whose w is zero ends in a     *)
(* DegenerateProjectionError and returns no array of quotients.            *)
(***************************************************************************)
C13_ZeroWRaises ==
    (fn_in.f = "hom_to_cart" /\ fn_out # <<>>) =>
        ((\E j \in 1..n_cols(fn_in.points) : fn_in.points[3][j] = 0) =>
            fn_out[1].raised = "DegenerateProjectionError")

(***************************************************************************)
(* C14: hom_to_cart(cart_to_hom(p)) has the shape of p and, column by      *)
(* column and row by row, exactly the values of p.                         *)
(***************************************************************************)
C14_RoundTripExact ==
    (fn_in.f = "round_trip" /\ fn_out # <<>>) =>
        LET p == fn_in.points
            q == fn_out[1].value
        IN  /\ fn_out[1].raised = "none"
            /\ Len(q) = Len(p)
            /\ \A i \in 1..Len(p) :
                  /\ Len(q[i]) = Len(p[i])
                  /\ \A j \in 1..Len(p[i]) : RatIs(q[i][j], p[i][j])

\* Two different points, none at the origin, went through the round trip.
C14_Witness ==
    /\ fn_in.f = "round_trip"
    /\ fn_out # <<>>
    /\ n_cols(fn_in.points) = 2
    /\ fn_in.points[1][1] # fn_in.points[1][2]
    /\ fn_in.points[1][1] # 0
    /\ fn_in.points[2][2] # 0
    /\ Len(fn_out[1].value) = 2

(***************************************************************************)
(* The model chessboard.  homography.py has the centred grid of unit tile  *)
(* width; the constructor calls compute_model_chessboard_2d(cb_rows,       *)
(* cb_cols, cb_tile_width, center_at_zero=True), the same grid scaled by   *)
(* the tile width.  A point is <<x, y>>, each a rational [num, den].       *)
(***************************************************************************)
MaxRows == 4
MaxCols == 4
MaxTile == 4

RatSub(a, b) == Rat(a.num * b.den - b.num * a.den, a.den * b.den)
RatAdd(a, b) ==
    IF a.den = b.den
    THEN Rat(a.num + b.num, a.den)
    ELSE Rat(a.num * b.den + b.num * a.den, a.den * b.den)
RatScale(c, a) == Rat(c * a.num, a.den)

\* (i + 0.5) - n / 2
centred(i, n) == Rat(2 * i + 1 - n, 2)

\* The index computed as col * rows + row.
compute_model_chessboard_col_major(rows, cols) ==
    [k \in 1..(rows * cols) |->
        LET col == (k - 1) \div rows
            row == (k - 1) % rows
        IN  <<centred(col, cols), centred(row, rows)>>]

\* homography.py lines 200-208: model_chessboard[row * cols + col] =
\* ((col + 0.5) - cols / 2, (row + 0.5) - rows / 2), row and col from 0.
compute_model_chessboard(rows, cols) ==
    [k \in 1..(rows * cols) |->
        LET row == (k - 1) \div cols
            col == (k - 1) % cols
        IN  <<centred(col, cols), centred(row, rows)>>]

\* homography_utils.compute_model_chessboard_2d with center_at_zero=True.
compute_model_chessboard_2d(rows, cols, tile_width) ==
    LET unit == compute_model_chessboard(rows, cols)
    IN  [k \in DOMAIN unit |->
            <<RatScale(tile_width, unit[k][1]), RatScale(tile_width, unit[k][2])>>]

InitChessboard ==
    /\ pc = "idle"
    /\ Idle
    /\ InitCalibration
    /\ fn_in \in [f : {"compute_model_chessboard_2d"}, rows : 1..MaxRows,
                  cols : 1..MaxCols, tile_width : 0..MaxTile]
    /\ fn_out = <<>>
    /\ calib = <<>>
    /\ cache = <<>>
    /\ bev = <<>>
    /\ train = <<>>

\* homography_from_chessboard.py line 27.
ApplyChessboard ==
    /\ pc = "idle"
    /\ fn_in.f = "compute_model_chessboard_2d"
    /\ fn_out = <<>>
    /\ fn_out' = <<Returned(compute_model_chessboard_2d(fn_in.rows, fn_in.cols,
                                                        fn_in.tile_width))>>
    /\ UNCHANGED <<svars, cvars, fn_in, xvars>>

NextChessboard == ApplyChessboard

SpecChessboard == InitChessboard /\ [][NextChessboard]_vars

RECURSIVE RatSum(_, _)
\* The sum of coordinate c over the points of the sequence s.
RatSum(s, c) ==
    IF s = <<>> THEN Rat(0, 1) ELSE RatAdd(s[1][c], RatSum(Tail(s), c))

(***************************************************************************)
(* C15: the model chessboard for (rows, cols, tile width w, centred) has   *)
(* rows * cols points; within a row the point after index row*cols+col is  *)
(* w further in x and at the same y, the first point of the next row is w  *)
(* further in y (row-major order); the coordinates sum to (0, 0).          *)
(***************************************************************************)
C15_ModelChessboard ==
    (fn_in.f = "compute_model_chessboard_2d" /\ fn_out # <<>>) =>
        LET rows == fn_in.rows
            cols == fn_in.cols
            w == fn_in.tile_width
            b == fn_out[1].value
            At(row, col) == b[row * cols + col + 1]
        IN  /\ fn_out[1].raised = "none"
            /\ Len(b) = rows * cols
            /\ \A row \in 0..(rows - 1) : \A col \in 0..(cols - 2) :
                  /\ RatIs(RatSub(At(row, col + 1)[1], At(row, col)[1]), w)
                  /\ RatIs(RatSub(At(row, col + 1)[2], At(row, col)[2]), 0)
            /\ \A row \in 0..(rows - 2) :
                  RatIs(RatSub(At(row + 1, 0)[2], At(row, 0)[2]), w)
            /\ RatIs(RatSum(b, 1), 0)
            /\ RatIs(RatSum(b, 2), 0)

\* A board with more columns than rows, both above one, and tile width 3.
C15_Witness ==
    /\ fn_in.f = "compute_model_chessboard_2d"
    /\ fn_out # <<>>
    /\ fn_in.rows = 2
    /\ fn_in.cols = 3
    /\ fn_in.tile_width = 3
    /\ Len(fn_out[1].value) = 6
    /\ RatIs(fn_out[1].value[1][1], -3)

(***************************************************************************)
(* camera_intrinsics.py: CameraIntrinsics.  The loaded YAML document is a  *)
(* function from its keys to values; config["camera_intrinsics"] is a      *)
(* function from the keys present among fx, fy, cx, cy to numbers.         *)
(***************************************************************************)
FocalValues == {-2, 0, 2}
CentreValues == {0, 1}

IntrinsicKeys == {"fx", "fy", "cx", "cy"}

\* The camera_intrinsics sections: any subset of the keys, any values.
IntrinsicSections ==
    UNION {[ks -> FocalValues \cup CentreValues] : ks \in SUBSET IntrinsicKeys}

\* The documents: one without the section (only another key), or with a
\* section whose focal lengths and principal point, when present, are such
\* values.
Configs ==
    {[camera_imu_transform |-> 0]} \cup
    {[camera_intrinsics |-> s] : s \in
        {t \in IntrinsicSections :
            /\ \A k \in DOMAIN t \cap {"cx", "cy"} : t[k] \in CentreValues
            /\ \A k \in DOMAIN t \cap {"fx", "fy"} : t[k] \in FocalValues}}

\* How a call ended when it raised.
Raised(e) == [raised |-> e, value |-> <<>>]

\* Lines 6-11: __init__ keeps config["camera_intrinsics"].
CameraIntrinsics_init(config) ==
    IF "camera_intrinsics" \notin DOMAIN config
    THEN Raised("KeyError")
    ELSE Returned(config.camera_intrinsics)

\* Line 27: K = np.array([[fx, 0, cx], [0, fy, cy], [0, 0, 1]]).
camera_matrix(fx, fy, cx, cy) == <<<<fx, 0, cx>>, <<0, fy, cy>>, <<0, 0, 1>>>>

\* Line 28: np.linalg.inv raises LinAlgError on a singular matrix.
np_linalg_inv(A) ==
    IF Det(A) = 0
    THEN Raised("LinAlgError")
    ELSE Returned([m |-> Adj(A), den |-> Det(A)])

\* Lines 22-29: the four subscriptions in order, then K and its inverse.
get_camera_calibration_matrix(section) ==
    IF "fx" \notin DOMAIN section THEN Raised("KeyError")
    ELSE IF "fy" \notin DOMAIN section THEN Raised("KeyError")
    ELSE IF "cx" \notin DOMAIN section THEN Raised("KeyError")
    ELSE IF "cy" \notin DOMAIN section THEN Raised("KeyError")
    ELSE LET Km == camera_matrix(section["fx"], section["fy"],
                                 section["cx"], section["cy"])
             inv == np_linalg_inv(Km)
         IN  IF inv.raised # "none"
             THEN inv
             ELSE Returned([K |-> Km, K_inv |-> inv.value])

InitCamera ==
    /\ pc = "idle"
    /\ Idle
    /\ InitCalibration
    /\ fn_in \in [f : {"CameraIntrinsics"}, config : Configs]
    /\ fn_out = <<>>
    /\ calib = <<>>
    /\ cache = <<>>
    /\ bev = <<>>
    /\ train = <<>>

\* CameraIntrinsics()
LoadCameraConfig ==
    /\ pc = "idle"
    /\ fn_in.f = "CameraIntrinsics"
    /\ fn_out = <<>>
    /\ fn_out' = <<CameraIntrinsics_init(fn_in.config)>>
    /\ UNCHANGED <<svars, cvars, fn_in, xvars>>

\* .get_camera_calibration_matrix() on the constructed object.
GetCameraCalibrationMatrix ==
    /\ pc = "idle"
    /\ fn_in.f = "CameraIntrinsics"
    /\ Len(fn_out) = 1
    /\ fn_out[1].raised = "none"
    /\ fn_out' = Append(fn_out, get_camera_calibration_matrix(fn_out[1].value))
    /\ UNCHANGED <<svars, cvars, fn_in, xvars>>

NextCamera == LoadCameraConfig \/ GetCameraCalibrationMatrix

SpecCamera == InitCamera /\ [][NextCamera]_vars

\* The loading of the camera model has ended, with its outcome.
CameraLoaded ==
    \/ Len(fn_out) = 2
    \/ Len(fn_out) = 1 /\ fn_out[1].raised # "none"

CameraOutcome == fn_out[Len(fn_out)]

(***************************************************************************)
(* C12: when fx or fy is not positive, or cx or cy is missing from the     *)
(* calibration config, loading the camera model ends in a ConfigError and  *)
(* returns no (K, K_inverse) pair.                                         *)
(***************************************************************************)
C12_BadConfigRaisesConfigError ==
    (fn_in.f = "CameraIntrinsics" /\ "camera_intrinsics" \in DOMAIN fn_in.config
        /\ CameraLoaded) =>
        LET s == fn_in.config.camera_intrinsics
            present(k) == k \in DOMAIN s
        IN  (\/ present("fx") /\ s["fx"] <= 0
             \/ present("fy") /\ s["fy"] <= 0
             \/ ~present("cx")
             \/ ~present("cy")) =>
                /\ CameraOutcome.raised = "ConfigError"
                /\ CameraOutcome.value = <<>>

(***************************************************************************)
(* Equality of homographies as real matrices.                              *)
(***************************************************************************)
HomEq(A, B) ==
    \A i \in 1..3 : \A j \in 1..3 : A.m[i][j] * B.den = B.m[i][j] * A.den

HomIdentity == [m |-> I3, den |-> 1]

TMax == 1

Abs(x) == IF x < 0 THEN -x ELSE x

\* np.cross
Cross(u, v) ==
    <<u[2] * v[3] - u[3] * v[2], u[3] * v[1] - u[1] * v[3], u[1] * v[2] - u[2] * v[1]>>

HasSqrt(n) == \E k \in 0..n : k * k = n

\* The square root of a perfect square.
Sqrt(n) == CHOOSE k \in 0..n : k * k = n

\* Lines 220-244, with H = Hm.m / Hm.den and K_inv = Ki.m / Ki.den.  The
\* vectors K_inv @ h are kept as integer numerators over D = Ki.den * Hm.den.
decompose_homography_return_rt(Hm, Ki) ==
    LET Ht == Transpose(Hm.m)
        D == Ki.den * Hm.den
        v1 == MatVec(Ki.m, Ht[1])
        v2 == MatVec(Ki.m, Ht[2])
        v3 == MatVec(Ki.m, Ht[3])
        s == Sqrt(Dot(v1, v1))
        r1 == [i \in 1..3 |-> np_divide(v1[i] * Sign(D), s)]
        r2 == [i \in 1..3 |-> np_divide(v2[i] * Sign(D), s)]
        c == Cross(v1, v2)
        r3 == [i \in 1..3 |-> np_divide(c[i], s * s)]
        Tv == [i \in 1..3 |-> np_divide(v3[i] * Sign(D), s)]
    IN  [R |-> <<r1, r2, r3>>, T |-> Tv]

RatMul(a, b) == Rat(a.num * b.num, a.den * b.den)

\* The rows of a matrix of quotients are orthonormal.
RowsOrthonormal(Rq) ==
    /\ \A i \in 1..3 : \A j \in 1..3 : IsFinite(Rq[i][j])
    /\ \A a \in 1..3 : \A b \in 1..3 :
          RatIs(RatAdd(RatMul(Rq[a][1], Rq[b][1]),
                       RatAdd(RatMul(Rq[a][2], Rq[b][2]), RatMul(Rq[a][3], Rq[b][3]))),
                IF a = b THEN 1 ELSE 0)

RoundTripRotations == {I3, Rz90}
RoundTripTranslations == ((0 - TMax)..TMax) \X ((0 - TMax)..TMax) \X ((0 - TMax)..TMax)
RoundTripNormals == {<<0, 0, 1>>}
RoundTripDistances == {-1, 1, 2}
RoundTripIntrinsics == {camera_matrix(1, 1, 0, 0), camera_matrix(2, 2, 1, 1)}

\* The homography synthesized from the input and the inverse intrinsics.
SynthesizedOf(in) ==
    compute_homography_from_rt(in.K, in.R, in.T, in.plane_normal, in.plane_distance)

InitRoundTrip ==
    /\ pc = "idle"
    /\ Idle
    /\ InitCalibration
    /\ fn_in \in [f : {"decompose_synthesized"}, R : RoundTripRotations,
                  T : RoundTripTranslations, plane_normal : RoundTripNormals,
                  plane_distance : RoundTripDistances, K : RoundTripIntrinsics]
    /\ LET Hm == SynthesizedOf(fn_in)
           Ki == np_linalg_inv(fn_in.K).value
           v1 == MatVec(Ki.m, Transpose(Hm.m)[1])
       IN  /\ HasSqrt(Dot(v1, v1))
           /\ RowsOrthonormal(decompose_homography_return_rt(Hm, Ki).R)
    /\ fn_out = <<>>
    /\ calib = <<>>
    /\ cache = <<>>
    /\ bev = <<>>
    /\ train = <<>>

\* decompose_homography_return_rt(compute_homography_from_rt(K, R, T, n, d),
\* np.linalg.inv(K))
ApplyDecomposeSynthesized ==
    /\ pc = "idle"
    /\ fn_in.f = "decompose_synthesized"
    /\ fn_out = <<>>
    /\ fn_out' = <<Returned(decompose_homography_return_rt(
                                SynthesizedOf(fn_in), np_linalg_inv(fn_in.K).value))>>
    /\ UNCHANGED <<svars, cvars, fn_in, xvars>>

NextRoundTrip == ApplyDecomposeSynthesized

SpecRoundTrip == InitRoundTrip /\ [][NextRoundTrip]_vars

\* The quotient q is within 1e-4 of the number x.
WithinTolerance(q, x) ==
    IsFinite(q) /\ 10000 * Abs(q.num - x * q.den) <= q.den

(***************************************************************************)
(* C17: decomposing the homography synthesized from (R, T, normal,         *)
(* distance) with the intrinsics K gives back R and T, entry by entry,     *)
(* within the tolerance.                                                   *)
(***************************************************************************)
C17_DecomposeRecoversRT ==
    (fn_in.f = "decompose_synthesized" /\ fn_out # <<>>) =>
        LET M == fn_out[1].value
        IN  /\ \A i \in 1..3 : \A j \in 1..3 : WithinTolerance(M.R[i][j], fn_in.R[i][j])
            /\ \A i \in 1..3 : WithinTolerance(M.T[i], fn_in.T[i])

(***************************************************************************)
(* homography_from_chessboard.py: HomographyFromChessboardImage.__init__   *)
(* as a state machine over the variable calib.  An image stands for what   *)
(* cv2.findChessboardCorners finds in it: the flag ret and the corners     *)
(* array, which is None ([none |-> TRUE]) or a list of pixel positions.    *)
(* The boards found are axis-parallel with a whole number of pixels per    *)
(* tile; a failed detection hands back None or only some of the corners.   *)
(***************************************************************************)
CalibBoards == {<<2, 2>>, <<2, 3>>}
CalibOrigins == {<<10, 20>>, <<11, 20>>}
CalibSpacings == {3, 4, 5}

NoneArray == [none |-> TRUE, pts |-> <<>>]
SomeArray(pts) == [none |-> FALSE, pts |-> pts]

\* The corners of a board of rows x cols inner corners, row by row.
BoardCorners(rows, cols, origin, spacing) ==
    [k \in 1..(rows * cols) |->
        <<origin[1] + ((k - 1) % cols) * spacing,
          origin[2] + ((k - 1) \div cols) * spacing>>]

CalibImages ==
    {[cb_rows |-> b[1], cb_cols |-> b[2], ret |-> TRUE,
      corners |-> SomeArray(BoardCorners(b[1], b[2], o, s))] :
        b \in CalibBoards, o \in CalibOrigins, s \in CalibSpacings}
    \cup
    {[cb_rows |-> b[1], cb_cols |-> b[2], ret |-> FALSE, corners |-> NoneArray] :
        b \in CalibBoards}
    \cup
    {[cb_rows |-> b[1], cb_cols |-> b[2], ret |-> FALSE,
      corners |-> SomeArray(BoardCorners(1, b[2], <<10, 20>>, 4))] :
        b \in CalibBoards}

CalibConfigs ==
    {[camera_intrinsics |-> [fx |-> 2, fy |-> 2, cx |-> 1, cy |-> 1]],
     [camera_intrinsics |-> [fx |-> 2, fy |-> 2, cy |-> 1]]}

\* Line 22: the detector's answer for the image.
findChessboardCorners(image) == [ret |-> image.ret, corners |-> image.corners]

RECURSIVE insert_by(_, _, _)
\* x put behind every element whose coordinate c is not above its own.
insert_by(s, x, c) ==
    IF s = <<>> THEN <<x>>
    ELSE IF s[Len(s)][c] <= x[c] THEN Append(s, x)
    ELSE Append(insert_by(SubSeq(s, 1, Len(s) - 1), x, c), s[Len(s)])

RECURSIVE sorted_by(_, _)
\* Python's sorted(points, key=lambda p: p[c]), a stable sort.
sorted_by(s, c) ==
    IF s = <<>> THEN <<>>
    ELSE insert_by(sorted_by(SubSeq(s, 1, Len(s) - 1), c), s[Len(s)], c)

SetMax(S) == CHOOSE x \in S : \A y \in S : y <= x

\* The square of np.linalg.norm(p - q).
dist2(p, q) == (p[1] - q[1]) * (p[1] - q[1]) + (p[2] - q[2]) * (p[2] - q[2])

\* Lines 66-70 and 75: the corners sorted by y, cut into chunks of cb_cols,
\* each chunk sorted by x.
tile_rows(corners, cb_cols) ==
    LET sorted_corners == sorted_by(corners, 2)
        interval == cb_cols
    IN  [i \in 1..(Len(sorted_corners) \div interval) |->
            sorted_by(SubSeq(sorted_corners, (i - 1) * interval + 1, i * interval), 1)]

\* The squared distances of the corners next to each other in a chunk.
tile_distances(rows) ==
    {dist2(rows[i][k], rows[i][k + 1]) :
        i \in DOMAIN rows, k \in 1..(Len(rows[1]) - 1)}

\* The mean of the squared distances, rounded down.
chessboard_tile_width_mean(corners, cb_cols) ==
    LET rows == tile_rows(corners, cb_cols)
        pairs == {<<i, k>> : i \in DOMAIN rows, k \in 1..(cb_cols - 1)}
        RECURSIVE total(_)
        total(S) == IF S = {} THEN 0
                    ELSE LET x == CHOOSE y \in S : TRUE
                         IN  dist2(rows[x[1]][x[2]], rows[x[1]][x[2] + 1])
                             + total(S \ {x})
    IN  IF pairs = {} THEN 0 ELSE total(pairs) \div Cardinality(pairs)

\* Lines 63-80.  The distances are kept squared: the value returned by the
\* code is the square root of this number.
chessboard_tile_width(corners, cb_cols) ==
    LET rows == tile_rows(corners, cb_cols)
        distances == IF rows = <<>> THEN {} ELSE tile_distances(rows)
    IN  SetMax(distances \cup {0})

\* int() of the square root of n.
int_sqrt(n) == CHOOSE k \in 0..n : k * k <= n /\ n < (k + 1) * (k + 1)

RECURSIVE SumOf(_, _)
\* The sum of coordinate c over the pixel positions of the sequence s.
SumOf(s, c) == IF s = <<>> THEN 0 ELSE s[1][c] + SumOf(Tail(s), c)

\* Line 29: cv2.findHomography(model, corners, cv2.RANSAC).  It needs as
\* many model points as corners; on the boards drawn the model has the
\* spacing of the corners and the fit is the translation between the means.
findHomography(src, dst) ==
    IF Len(src) # Len(dst)
    THEN Raised("cv2.error")
    ELSE LET n == Len(src)
             sx == RatSum(src, 1)
             sy == RatSum(src, 2)
             D == n * sx.den * sy.den
         IN  Returned([m |-> <<<<D, 0, (SumOf(dst, 1) * sx.den - sx.num) * sy.den>>,
                                <<0, D, (SumOf(dst, 2) * sy.den - sy.num) * sx.den>>,
                                <<0, 0, D>>>>,
                       den |-> D])

\* homography_utils.decompose_homography(H, K): the decomposition of
\* homography.py, the plane normal the third row of R, the plane distance
\* the third component of T.
decompose_homography(Hm, Km) ==
    LET M == decompose_homography_return_rt(Hm, np_linalg_inv(Km).value)
    IN  [RT |-> M, plane_normal |-> M.R[3], plane_distance |-> M.T[3]]

\* Lines 104-108: hom_to_cart(H @ cart_to_hom(points)) on rational points.
transform_points(pts, Hm) ==
    [k \in DOMAIN pts |->
        LET hom == <<pts[k][1].num * pts[k][2].den, pts[k][2].num * pts[k][1].den,
                     pts[k][1].den * pts[k][2].den>>
            v == MatVec(Hm.m, hom)
        IN  <<np_divide(v[1], v[3]), np_divide(v[2], v[3])>>]

\* obj.k = v
SetAttr(obj, k, v) == [a \in DOMAIN obj \cup {k} |-> IF a = k THEN v ELSE obj[a]]

\* The constructor is at position p with the object s and the locals l.
CalibAt(p, s, l, step) ==
    calib' = [calib EXCEPT !.pc = p, !.self = s, !.locals = l,
                           !.steps = Append(@, step)]

\* The constructor is left by the exception e.
CalibRaise(e, step) ==
    calib' = [calib EXCEPT !.pc = "raised", !.raised = e, !.steps = Append(@, step)]

InitCalib ==
    /\ pc = "idle"
    /\ Idle
    /\ InitCalibration
    /\ fn_in = <<>>
    /\ fn_out = <<>>
    /\ calib \in [pc : {"detect"}, image : CalibImages, config : CalibConfigs,
                  self : {<<>>}, locals : {<<>>}, steps : {<<>>}, raised : {"none"}]
    /\ cache = <<>>
    /\ bev = <<>>
    /\ train = <<>>

\* Lines 15-23: the arguments are stored, the corners detected and reshaped.
CalibDetect ==
    /\ calib.pc = "detect"
    /\ LET image == calib.image
           s1 == SetAttr(SetAttr(SetAttr(SetAttr(calib.self,
                     "image", image), "cb_rows", image.cb_rows),
                     "cb_cols", image.cb_cols),
                     "chessboard_size", <<image.cb_rows, image.cb_cols>>)
           found == findChessboardCorners(image)
           l1 == SetAttr(calib.locals, "ret", found.ret)
       IN  IF found.corners.none
           THEN calib' = [calib EXCEPT !.pc = "raised", !.raised = "AttributeError",
                                       !.self = s1, !.locals = l1,
                                       !.steps = Append(@, "detect")]
           ELSE CalibAt("tile_width", SetAttr(s1, "corners", found.corners.pts),
                        l1, "detect")
    /\ UNCHANGED <<svars, cvars, fvars, cache, bev, train>>

\* Line 24: self.cb_tile_width = int(self.chessboard_tile_width()).
CalibTileWidth ==
    /\ calib.pc = "tile_width"
    /\ CalibAt("model",
               SetAttr(calib.self, "cb_tile_width",
                       int_sqrt(chessboard_tile_width(calib.self["corners"],
                                                      calib.self["cb_cols"]))),
               calib.locals, "tile_width")
    /\ UNCHANGED <<svars, cvars, fvars, cache, bev, train>>

\* Line 27: the model chessboard.
CalibModel ==
    /\ calib.pc = "model"
    /\ CalibAt("fit", calib.self,
               SetAttr(calib.locals, "model_chessboard_2d",
                       compute_model_chessboard_2d(calib.self["cb_rows"],
                                                   calib.self["cb_cols"],
                                                   calib.self["cb_tile_width"])),
               "model")
    /\ UNCHANGED <<svars, cvars, fvars, cache, bev, train>>

\* Line 29: the homography fit.
CalibFit ==
    /\ calib.pc = "fit"
    /\ LET fit == findHomography(calib.locals["model_chessboard_2d"],
                                 calib.self["corners"])
       IN  IF fit.raised # "none"
           THEN CalibRaise(fit.raised, "fit")
           ELSE CalibAt("intrinsics", SetAttr(calib.self, "H", fit.value),
                        calib.locals, "fit")
    /\ UNCHANGED <<svars, cvars, fvars, cache, bev, train>>

\* Line 30: CameraIntrinsics().get_camera_calibration_matrix().
CalibIntrinsics ==
    /\ calib.pc = "intrinsics"
    /\ LET ci == CameraIntrinsics_init(calib.config)
           km == IF ci.raised # "none" THEN ci
                 ELSE get_camera_calibration_matrix(ci.value)
       IN  IF km.raised # "none"
           THEN CalibRaise(km.raised, "intrinsics")
           ELSE CalibAt("decompose", SetAttr(calib.self, "K", km.value.K),
                        SetAttr(calib.locals, "K_inv", km.value.K_inv), "intrinsics")
    /\ UNCHANGED <<svars, cvars, fvars, cache, bev, train>>

\* Line 31: the decomposition.
CalibDecompose ==
    /\ calib.pc = "decompose"
    /\ LET d == decompose_homography(calib.self["H"], calib.self["K"])
       IN  CalibAt("validate",
                   SetAttr(SetAttr(SetAttr(calib.self, "RT", d.RT),
                                   "plane_normal", d.plane_normal),
                           "plane_distance", d.plane_distance),
                   calib.locals, "decompose")
    /\ UNCHANGED <<svars, cvars, fvars, cache, bev, train>>

\* Lines 33-37: the model points sent through H (validate_chessboard_2d) and
\* through K @ RT[:3] (validate_chessboard_3d, kept as the name of the
\* product).
CalibValidate ==
    /\ calib.pc = "validate"
    /\ CalibAt("done",
               SetAttr(SetAttr(calib.self, "transformed_model_chessboard_2d",
                               transform_points(calib.locals["model_chessboard_2d"],
                                                calib.self["H"])),
                       "model_cb_3d_to_2d", "hom_to_cart(K @ RT[:3] @ model_chessboard_3d.T)"),
               calib.locals, "validate")
    /\ UNCHANGED <<svars, cvars, fvars, cache, bev, train>>

NextCalib ==
    \/ CalibDetect
    \/ CalibTileWidth
    \/ CalibModel
    \/ CalibFit
    \/ CalibIntrinsics
    \/ CalibDecompose
    \/ CalibValidate

SpecCalib == InitCalib /\ [][NextCalib]_vars

\* The calibration results an object can hold.
CalibResults == {"H", "RT", "plane_normal", "plane_distance", "cb_tile_width"}

(***************************************************************************)
(* C11: when the corner detection fails, the construction ends in a        *)
(* CalibrationError: once the detection step has run on an image whose     *)
(* detection fails, the constructor has been left by CalibrationError, no  *)
(* H, RT, plane normal, plane distance or tile width has been set and no   *)
(* step after the detection has run.                                       *)
(***************************************************************************)
C11_DetectionFailureRaises ==
    (~calib.image.ret /\ calib.pc # "detect") =>
        /\ calib.pc = "raised"
        /\ calib.raised = "CalibrationError"
        /\ DOMAIN calib.self \cap CalibResults = {}
        /\ calib.steps = <<"detect">>

(***************************************************************************)
(* vicreg_dataset.py, the main program: runs of the script on one bag      *)
(* directory, over the variable cache.  The file system outlives a run:    *)
(* cache.file is the <bag>_vicreg.pkl file.  Between two runs the user may *)
(* delete it (the comment of line 189).  cache.log is the history of what  *)
(* the runs did.                                                           *)
(***************************************************************************)
MaxRuns == 3

\* Line 193.
main_history_size == 10

BagTimesteps == {0, 11, 12}

NoData == [bag |-> "none", lists |-> 0]

\* What ComputeVicRegData returns for the bag: one list per timestep of
\* range(history_size, n_timesteps).
ComputeVicRegData(bag, hs) ==
    [bag |-> "this",
     lists |-> IF bag.n_timesteps > hs THEN bag.n_timesteps - hs ELSE 0]

NoFile == [exists |-> FALSE, content |-> NoData]

\* A cache file left by an earlier run.
OldFile == [exists |-> TRUE, content |-> [bag |-> "earlier", lists |-> 1]]

\* Never a hit.
cache_hit_never(file) == FALSE

\* Line 188: os.path.exists(vicreg_data_path).
cache_hit(file) == file.exists

\* Lines 190-191: pickle.load.
pickle_load(file) == file.content

\* Lines 197-198: open(path, "wb") and pickle.dump.
pickle_dump(data) == [exists |-> TRUE, content |-> data]

\* The log with the event e of the current run added.
Logged(e) == Append(cache.log, [run |-> cache.run, e |-> e])

InitCache ==
    /\ pc = "idle"
    /\ Idle
    /\ InitCalibration
    /\ fn_in = <<>>
    /\ fn_out = <<>>
    /\ calib = <<>>
    /\ cache \in [pc : {"start"}, run : {1}, bag_found : BOOLEAN,
                  bag : [n_timesteps : BagTimesteps], file : {NoFile, OldFile},
                  vicreg_data : {NoData}, log : {<<>>}]
    /\ bev = <<>>
    /\ train = <<>>

\* Lines 155-185: calibration, arguments, the bag directory and its synced
\* pickle file; FileNotFoundError ends the run.
MainSetup ==
    /\ cache.pc = "start"
    /\ cache' = [cache EXCEPT !.pc = IF cache.bag_found THEN "check" ELSE "ended",
                              !.log = Logged(IF cache.bag_found
                                             THEN "setup" ELSE "FileNotFoundError")]
    /\ UNCHANGED <<svars, cvars, fvars, calib, bev, train>>

\* Line 188: the test of the cache file.
MainCheck ==
    /\ cache.pc = "check"
    /\ cache' = [cache EXCEPT !.pc = IF cache_hit(cache.file) THEN "load" ELSE "compute",
                              !.log = Logged(IF cache.file.exists
                                             THEN "present" ELSE "absent")]
    /\ UNCHANGED <<svars, cvars, fvars, calib, bev, train>>

\* Lines 190-191: the data is read from the file.
MainLoad ==
    /\ cache.pc = "load"
    /\ cache' = [cache EXCEPT !.pc = "visualize",
                              !.vicreg_data = pickle_load(cache.file),
                              !.log = Logged("load")]
    /\ UNCHANGED <<svars, cvars, fvars, calib, bev, train>>

\* Lines 193-196: the data is computed.
MainCompute ==
    /\ cache.pc = "compute"
    /\ cache' = [cache EXCEPT !.pc = "dump",
                              !.vicreg_data = ComputeVicRegData(cache.bag,
                                                                main_history_size),
                              !.log = Logged("compute")]
    /\ UNCHANGED <<svars, cvars, fvars, calib, bev, train>>

\* Lines 197-198: the data is written to the file.
MainDump ==
    /\ cache.pc = "dump"
    /\ cache' = [cache EXCEPT !.pc = "visualize",
                              !.file = pickle_dump(cache.vicreg_data),
                              !.log = Logged("dump")]
    /\ UNCHANGED <<svars, cvars, fvars, calib, bev, train>>

\* Line 201: validate_vicreg_data shows the data and ends in exit(0).
MainVisualize ==
    /\ cache.pc = "visualize"
    /\ cache' = [cache EXCEPT !.pc = "ended", !.log = Logged("visualize")]
    /\ UNCHANGED <<svars, cvars, fvars, calib, bev, train>>

\* The script is started again on the same bag directory.
MainNextRun ==
    /\ cache.pc = "ended"
    /\ cache.run < MaxRuns
    /\ cache' = [cache EXCEPT !.pc = "start", !.run = @ + 1, !.vicreg_data = NoData]
    /\ UNCHANGED <<svars, cvars, fvars, calib, bev, train>>

\* Between two runs the user deletes the .pkl file.
DeleteCacheFile ==
    /\ cache.pc = "ended"
    /\ cache.file.exists
    /\ cache' = [cache EXCEPT !.file = NoFile, !.log = Logged("delete")]
    /\ UNCHANGED <<svars, cvars, fvars, calib, bev, train>>

NextCache ==
    \/ MainSetup
    \/ MainCheck
    \/ MainLoad
    \/ MainCompute
    \/ MainDump
    \/ MainVisualize
    \/ MainNextRun
    \/ DeleteCacheFile

SpecCache == InitCache /\ [][NextCache]_vars

\* The positions of the log holding event e of run r.
EventAt(r, e) == {i \in DOMAIN cache.log : cache.log[i].run = r /\ cache.log[i].e = e}

Happened(r, e) == EventAt(r, e) # {}

(***************************************************************************)
(* C19: in every run ComputeVicRegData is executed exactly when the cache  *)
(* file was absent at the test; a run that computes writes the result to   *)
(* the file before it visualizes; a run that finds the file loads its      *)
(* content and does not compute, so a run following one that wrote or      *)
(* loaded the file, the file not deleted in between, loads that data.      *)
(***************************************************************************)
C19_CacheProtocol ==
    /\ \A r \in 1..cache.run :
          /\ Happened(r, "compute") => Happened(r, "absent")
          /\ Happened(r, "load") => Happened(r, "present")
          /\ ~(Happened(r, "compute") /\ Happened(r, "load"))
          /\ (Happened(r, "absent")
                /\ (r < cache.run \/ cache.pc \in {"dump", "visualize", "ended"})) =>
                Happened(r, "compute")
          /\ Happened(r, "visualize") =>
                \/ Happened(r, "present") /\ Happened(r, "load")
                \/ /\ Happened(r, "absent")
                   /\ \E c \in EventAt(r, "compute") : \E d \in EventAt(r, "dump") :
                         \A v \in EventAt(r, "visualize") : c < d /\ d < v
          /\ \A e \in {"compute", "load", "dump", "visualize"} :
                Cardinality(EventAt(r, e)) <= 1
    /\ (cache.pc = "visualize" /\ Happened(cache.run, "compute")) =>
          /\ cache.file.exists
          /\ cache.file.content = ComputeVicRegData(cache.bag, main_history_size)
          /\ cache.vicreg_data = cache.file.content
    /\ (cache.pc = "visualize" /\ Happened(cache.run, "load")) =>
          cache.vicreg_data = cache.file.content
    /\ \A r \in 2..cache.run :
          (/\ Happened(r - 1, "visualize")
           /\ ~Happened(r - 1, "delete")
           /\ (Happened(r, "present") \/ Happened(r, "absent"))) =>
                /\ Happened(r, "present")
                /\ ~Happened(r, "compute")

\* A first run computed and wrote the file; the second run, the file still
\* there, has loaded it and reached the visualization.
C19_Witness ==
    /\ cache.run = 2
    /\ cache.pc = "ended"
    /\ Happened(1, "compute")
    /\ Happened(1, "dump")
    /\ Happened(2, "load")
    /\ Happened(2, "visualize")
    /\ cache.file.content.lists = 2

(***************************************************************************)
(* homography_from_chessboard.py: plot_BEV_full(img, H, patch_size) as a   *)
(* state machine over the variable bev, called with the calibrated H.      *)
(* A raster is a tuple of pixel rows of gray values.  Every warped tile is *)
(* of one gray value, decided by the image: tiles of a y-shift of at       *)
(* least img.lit_from show ground, the others are black; the mosaic is     *)
(* kept at one sample per tile (each standing for patch_size[1] x          *)
(* patch_size[2] equal pixels).  executor.map hands back the results in    *)
(* the order of shift_pairs; process_patch touches nothing but its own     *)
(* locals, and one action is one call of it.                               *)
(***************************************************************************)
\* Lines 212-214.
num_patches_x == 6
num_patches_y == 10
shift_step == 128
\* Line 252.
pool_size == 8

BEVPatchSizes == {<<128, 128>>, <<64, 64>>, <<128, 64>>}

BEVImages ==
    {[id |-> "img", shape |-> ImageShape, lit_from |-> l] :
        l \in {(0 - 2) * shift_step, 4 * shift_step, num_patches_y * shift_step}}

\* np.arange(a, b) * step, as a tuple.
arange_times(a, b, step) == [i \in 1..(b - a) |-> (a + i - 1) * step]

\* The tuple as it is, in increasing order.
sorted_ascending(s) == s

\* sorted(s, reverse=True) of a tuple of increasing numbers.
sorted_reverse(s) == [i \in 1..Len(s) |-> s[Len(s) + 1 - i]]

\* Lines 226-229: for sy in shift_y: for sx in shift_x: append [sx, sy].
shift_pairs_of(shift_x, shift_y) ==
    [k \in 1..(Len(shift_x) * Len(shift_y)) |->
        <<shift_x[((k - 1) % Len(shift_x)) + 1], shift_y[((k - 1) \div Len(shift_x)) + 1]>>]

\* Lines 232-249: process_patch(shift).
process_patch(shift, img, Hm, ps) ==
    LET T_shift == [m |-> <<<<1, 0, shift[1]>>, <<0, 1, shift[2]>>, <<0, 0, 1>>>>,
                    den |-> 1]
        H_shifted == HomMul(T_shift, Hm)
        warped == warpPerspective(img, H_shifted, ps)
        cur_patch == IF <<warped.shape[1], warped.shape[2]>> # ps
                     THEN resize(warped, ps)
                     ELSE warped
    IN  [shift |-> shift, patch |-> cur_patch,
         gray |-> IF shift[2] >= img.lit_from THEN 200 ELSE 0]

\* As many workers as work items.
max_workers_unbounded(n) == n

\* Line 252: max_workers.
max_workers(n) == IF pool_size <= n THEN pool_size ELSE n

\* The image without its last row.
crop_last_row(img, threshold) == SubSeq(img, 1, Len(img) - 1)

\* Lines 173-199: the rows up to the last one holding a pixel above the
\* threshold; all rows when there is none.
crop_bottom_to_content(img, threshold) ==
    LET h == Len(img)
        content == {row \in 1..h : \E x \in DOMAIN img[row] : img[row][x] > threshold}
        crop_row == IF content = {} THEN h ELSE SetMax(content)
    IN  SubSeq(img, 1, crop_row)

InitBEV ==
    /\ pc = "bev"
    /\ Idle
    /\ InitCalibration
    /\ fn_in = <<>>
    /\ fn_out = <<>>
    /\ calib = <<>>
    /\ cache = <<>>
    /\ bev \in [pc : {"shifts"}, img : BEVImages, patch_size : BEVPatchSizes,
                shift_x : {<<>>}, shift_y : {<<>>}, shift_pairs : {<<>>},
                workers : {0}, patches : {<<>>}, row_images : {<<>>},
                stitched_image : {<<>>}]
    /\ train = <<>>

\* Lines 212-230: the shifts and the shift pairs.
BEVShifts ==
    /\ pc = "bev"
    /\ bev.pc = "shifts"
    /\ LET sx == sorted_reverse(arange_times(0 - num_patches_x, num_patches_x + 2,
                                             shift_step))
           sy == sorted_reverse(arange_times(0 - 2, num_patches_y, shift_step))
       IN  bev' = [bev EXCEPT !.pc = "map", !.shift_x = sx, !.shift_y = sy,
                              !.shift_pairs = shift_pairs_of(sx, sy),
                              !.workers = max_workers(Len(shift_pairs_of(sx, sy)))]
    /\ UNCHANGED <<svars, cvars, fvars, calib, cache, train>>

\* Lines 252-253: executor.map calls process_patch on the next shift pair.
BEVProcessPatch ==
    /\ pc = "bev"
    /\ bev.pc = "map"
    /\ Len(bev.patches) < Len(bev.shift_pairs)
    /\ LET shift == bev.shift_pairs[Len(bev.patches) + 1]
           result == process_patch(shift, bev.img, H, bev.patch_size)
       IN  /\ bev' = [bev EXCEPT !.patches = Append(@, result)]
           /\ H' = operand_after_matmul(H, result.patch.H)
    /\ UNCHANGED <<svars, K, plane_normal, plane_distance, fvars, calib, cache, train>>

\* Line 261: cv2.hconcat(patches_array[i * cols:(i + 1) * cols]), the tiles
\* of grid row i side by side (i counted from 1).
hconcat(patches_array, i, cols) == [j \in 1..cols |-> patches_array[(i - 1) * cols + j]]

\* Line 265: cv2.vconcat(row_images), the raster of the rows one below the
\* other, at one sample per tile.
vconcat(row_images) ==
    [i \in DOMAIN row_images |-> [j \in DOMAIN row_images[i] |-> row_images[i][j].gray]]

\* Lines 256-265: the rows of the grid are concatenated, then the rows.
BEVStitch ==
    /\ pc = "bev"
    /\ bev.pc = "map"
    /\ Len(bev.patches) = Len(bev.shift_pairs)
    /\ LET rows == Len(bev.shift_y)
           cols == Len(bev.shift_x)
           row_images == [i \in 1..rows |-> hconcat(bev.patches, i, cols)]
       IN  bev' = [bev EXCEPT !.pc = "crop", !.row_images = row_images,
                              !.stitched_image = vconcat(row_images)]
    /\ UNCHANGED <<svars, cvars, fvars, calib, cache, train>>

\* Lines 268-270: the bottom is cropped and the mosaic returned.
BEVCrop ==
    /\ pc = "bev"
    /\ bev.pc = "crop"
    /\ bev' = [bev EXCEPT !.pc = "done",
                          !.stitched_image = crop_bottom_to_content(@, 1)]
    /\ UNCHANGED <<svars, cvars, fvars, calib, cache, train>>

NextBEV == BEVShifts \/ BEVProcessPatch \/ BEVStitch \/ BEVCrop

SpecBEV == InitBEV /\ [][NextBEV]_vars

\* The elements of a tuple are pairwise different.
Distinct(s) == \A i \in DOMAIN s : \A j \in DOMAIN s : i # j => s[i] # s[j]

(***************************************************************************)
(* C20: the lattice of plot_BEV_full has 14 distinct x-shifts and 12       *)
(* distinct y-shifts, hence 168 distinct shift pairs, each warped exactly  *)
(* once; consecutive x-shifts are patch_size[0] apart and consecutive      *)
(* y-shifts patch_size[1] apart, whatever patch_size is passed.            *)
(***************************************************************************)
C20_LatticeMatchesPatchSize ==
    (pc = "bev" /\ bev.pc # "shifts") =>
        /\ Len(bev.shift_x) = 14
        /\ Len(bev.shift_y) = 12
        /\ Distinct(bev.shift_x)
        /\ Distinct(bev.shift_y)
        /\ Len(bev.shift_pairs) = 168
        /\ Distinct(bev.shift_pairs)
        /\ \A k \in DOMAIN bev.patches : bev.patches[k].shift = bev.shift_pairs[k]
        /\ bev.pc # "map" => Len(bev.patches) = 168
        /\ \A i \in 1..(Len(bev.shift_x) - 1) :
              bev.shift_x[i] - bev.shift_x[i + 1] = bev.patch_size[1]
        /\ \A i \in 1..(Len(bev.shift_y) - 1) :
              bev.shift_y[i] - bev.shift_y[i + 1] = bev.patch_size[2]

(***************************************************************************)
(* The two readers of a calibration: a run of ComputeVicRegData or a call  *)
(* of plot_BEV_full, each handed the calibrated H (and, for the first, K,  *)
(* plane_normal and plane_distance).                                       *)
(***************************************************************************)
InitReaders == Init \/ InitBEV

NextReaders == Next \/ NextBEV

SpecReaders == InitReaders /\ [][NextReaders]_vars

\* Every warp made so far used the calibration as it is now: the anchor
\* patch of every list was warped by H, every past patch by H @ H_past2cur
\* with H_past2cur built from K, plane_normal and plane_distance, and every
\* tile of the mosaic by T_shift @ H.
SameCalibrationRead ==
    /\ pc # "bev" =>
          /\ \A i \in DOMAIN AllLists : AllLists[i][1].H = H
          /\ \A i \in DOMAIN evals :
                \A j \in DOMAIN evals[i] :
                    LET e == evals[i][j]
                    IN  /\ e.H_past2cur =
                              compute_homography_from_rt(K, e.R_rel, e.T_rel,
                                                         plane_normal, plane_distance)
                        /\ e.H_past2patch = HomMul(H, e.H_past2cur)
    /\ pc = "bev" =>
          \A k \in DOMAIN bev.patches :
              bev.patches[k] =
                  process_patch(bev.shift_pairs[k], bev.img, H, bev.patch_size)

(***************************************************************************)
(* C18: the calibration is read-only: no step of ComputeVicRegData and no  *)
(* step of plot_BEV_full changes H, K, plane_normal or plane_distance, and *)
(* every timestep and every shift has read the same values of them.        *)
(***************************************************************************)
C18_CalibrationReadOnly ==
    /\ [][cvars' = cvars]_vars
    /\ []SameCalibrationRead

\* ComputeVicRegData has returned after two timesteps or more, a past patch
\* warped by a homography other than H among them.
C18_Witness ==
    /\ pc = "done"
    /\ Len(patches) >= 2
    /\ \E i \in DOMAIN evals : \E j \in DOMAIN evals[i] :
          ~HomEq(evals[i][j].H_past2patch, H)

(***************************************************************************)
(* plot_BEV_full with its worker pool (lines 251-253), over the variable   *)
(* bev.  executor.map submits one future per shift pair at once; the pool  *)
(* has max_workers threads, each taking the oldest pending work item and   *)
(* setting the result of its future; list(...) takes the results of the    *)
(* futures in the order of submission, waiting for the next one; leaving   *)
(* the with block is shutdown(wait=True).  All interleavings of the        *)
(* workers and the collecting thread are taken over the last               *)
(* MaxInterleaved shift pairs; before them the schedule explored is the    *)
(* one where a work item is taken once its predecessor has been collected. *)
(***************************************************************************)
MaxInterleaved == 9

PoolPatchSizes == {<<128, 128>>, <<128, 64>>}

\* The image whose lower tile rows show no ground.
PoolImages == {im \in BEVImages : im.lit_from = 4 * shift_step}

PendingFuture == [state |-> "pending", result |-> [none |-> TRUE]]

\* The futures a worker is running.
Running(futures) == {k \in DOMAIN futures : futures[k].state = "running"}

\* The result of the latest future finished, whichever it is.
result_of_latest(futures, k) ==
    LET fin == {j \in DOMAIN futures : futures[j].state = "finished"}
    IN  IF fin = {} THEN <<>> ELSE <<futures[SetMax(fin)].result>>

\* Line 253: the generator of executor.map yields fs[k].result(), which
\* waits for the k-th future submitted: <<>> while it is not finished.
future_result(futures, k) ==
    IF futures[k].state = "finished" THEN <<futures[k].result>> ELSE <<>>

InitPool ==
    /\ pc = "pool"
    /\ Idle
    /\ InitCalibration
    /\ fn_in = <<>>
    /\ fn_out = <<>>
    /\ calib = <<>>
    /\ cache = <<>>
    /\ bev \in [pc : {"shifts"}, img : PoolImages, patch_size : PoolPatchSizes,
                shift_x : {<<>>}, shift_y : {<<>>}, shift_pairs : {<<>>},
                workers : {0}, futures : {<<>>}, shutdown : {FALSE},
                patches : {<<>>}, row_images : {<<>>}, stitched_image : {<<>>}]
    /\ train = <<>>

\* Lines 212-253, up to the call of executor.map: the shift pairs, the pool
\* and one pending future per shift pair.
PoolSubmit ==
    /\ pc = "pool"
    /\ bev.pc = "shifts"
    /\ LET sx == sorted_reverse(arange_times(0 - num_patches_x, num_patches_x + 2,
                                             shift_step))
           sy == sorted_reverse(arange_times(0 - 2, num_patches_y, shift_step))
           pairs == shift_pairs_of(sx, sy)
       IN  bev' = [bev EXCEPT !.pc = "map", !.shift_x = sx, !.shift_y = sy,
                              !.shift_pairs = pairs,
                              !.workers = max_workers(Len(pairs)),
                              !.futures = [k \in DOMAIN pairs |-> PendingFuture]]
    /\ UNCHANGED <<svars, cvars, fvars, calib, cache, train>>

\* A free worker thread takes the oldest pending work item.
WorkerTake(k) ==
    /\ pc = "pool"
    /\ bev.pc = "map"
    /\ k \in DOMAIN bev.futures
    /\ bev.futures[k].state = "pending"
    /\ \A j \in 1..(k - 1) : bev.futures[j].state # "pending"
    /\ Cardinality(Running(bev.futures)) < bev.workers
    /\ \/ k > Len(bev.futures) - MaxInterleaved
       \/ Len(bev.patches) >= k - 1
    /\ bev' = [bev EXCEPT !.futures[k].state = "running"]
    /\ UNCHANGED <<svars, cvars, fvars, calib, cache, train>>

\* The worker returns from process_patch and sets the result of its future.
WorkerFinish(k) ==
    /\ pc = "pool"
    /\ bev.pc = "map"
    /\ k \in DOMAIN bev.futures
    /\ bev.futures[k].state = "running"
    /\ LET result == process_patch(bev.shift_pairs[k], bev.img, H, bev.patch_size)
       IN  /\ bev' = [bev EXCEPT !.futures[k] = [state |-> "finished",
                                                 result |-> result]]
           /\ H' = operand_after_matmul(H, result.patch.H)
    /\ UNCHANGED <<svars, K, plane_normal, plane_distance, fvars, calib, cache, train>>

\* list(...) appends the next result of the generator.
PoolCollect ==
    /\ pc = "pool"
    /\ bev.pc = "map"
    /\ Len(bev.patches) < Len(bev.futures)
    /\ LET r == future_result(bev.futures, Len(bev.patches) + 1)
       IN  /\ r # <<>>
           /\ bev' = [bev EXCEPT !.patches = Append(@, r[1])]
    /\ UNCHANGED <<svars, cvars, fvars, calib, cache, train>>

\* The generator is exhausted and the with block is left: shutdown(wait=True)
\* returns once no worker is running.
PoolShutdown ==
    /\ pc = "pool"
    /\ bev.pc = "map"
    /\ Len(bev.patches) = Len(bev.futures)
    /\ Running(bev.futures) = {}
    /\ bev' = [bev EXCEPT !.pc = "stitch", !.shutdown = TRUE]
    /\ UNCHANGED <<svars, cvars, fvars, calib, cache, train>>

\* Lines 256-265.
PoolStitch ==
    /\ pc = "pool"
    /\ bev.pc = "stitch"
    /\ LET rows == Len(bev.shift_y)
           cols == Len(bev.shift_x)
           row_images == [i \in 1..rows |-> hconcat(bev.patches, i, cols)]
       IN  bev' = [bev EXCEPT !.pc = "crop", !.row_images = row_images,
                              !.stitched_image = vconcat(row_images)]
    /\ UNCHANGED <<svars, cvars, fvars, calib, cache, train>>

\* Lines 268-270.
PoolCrop ==
    /\ pc = "pool"
    /\ bev.pc = "crop"
    /\ bev' = [bev EXCEPT !.pc = "done",
                          !.stitched_image = crop_bottom_to_content(@, 1)]
    /\ UNCHANGED <<svars, cvars, fvars, calib, cache, train>>

PoolWorkers ==
    \E k \in 1..((num_patches_x + num_patches_x + 2) * (num_patches_y + 2)) :
        WorkerTake(k) \/ WorkerFinish(k)

NextPool ==
    \/ PoolSubmit
    \/ PoolWorkers
    \/ PoolCollect
    \/ PoolShutdown
    \/ PoolStitch
    \/ PoolCrop

SpecPool == InitPool /\ [][NextPool]_vars

\* The patches of the shift pairs processed one after the other.
SequentialPatches ==
    [k \in DOMAIN bev.shift_pairs |->
        process_patch(bev.shift_pairs[k], bev.img, H, bev.patch_size)]

\* The mosaic of the shift pairs processed one after the other.
SequentialMosaic ==
    LET sequential == SequentialPatches
    IN  crop_bottom_to_content(
            vconcat([i \in 1..Len(bev.shift_y) |->
                        hconcat(sequential, i, Len(bev.shift_x))]), 1)

\* A step of the pool that changes a future changes one future only, from
\* pending to running or from running to finished.
OneFutureChanged ==
    (bev.pc = "map" /\ bev'.pc = "map" /\ bev'.futures # bev.futures) =>
        LET changed == {k \in DOMAIN bev.futures : bev'.futures[k] # bev.futures[k]}
        IN  /\ Cardinality(changed) = 1
            /\ \A k \in changed :
                  <<bev.futures[k].state, bev'.futures[k].state>>
                      \in {<<"pending", "running">>, <<"running", "finished">>}

(***************************************************************************)
(* C21: whatever the interleaving of the workers, the k-th patch collected *)
(* is the warp of the k-th shift pair; a worker's step changes its own     *)
(* future and nothing else, the image, the homography and the shift pairs  *)
(* stay as they are; the stitching starts only after all 168 patches have  *)
(* been produced, and the mosaic returned is the sequential one.           *)
(***************************************************************************)
C21_MosaicIndependentOfInterleaving ==
    /\ [](pc = "pool" =>
            /\ \A k \in DOMAIN bev.patches :
                  bev.patches[k] =
                      process_patch(bev.shift_pairs[k], bev.img, H, bev.patch_size)
            /\ bev.pc \in {"stitch", "crop", "done"} =>
                  /\ Len(bev.patches) = 168
                  /\ \A k \in DOMAIN bev.futures : bev.futures[k].state = "finished"
            /\ bev.pc = "done" => bev.stitched_image = SequentialMosaic)
    /\ [][/\ cvars' = cvars
          /\ bev'.img = bev.img
          /\ bev'.patch_size = bev.patch_size
          /\ bev.pc # "shifts" => bev'.shift_pairs = bev.shift_pairs
          /\ OneFutureChanged]_vars

\* The workers have overtaken each other: the last future is finished
\* while the one before it and the 161st are still running, and eight
\* patches are yet to be collected.
C21_Witness ==
    /\ pc = "pool"
    /\ bev.pc = "map"
    /\ bev.futures[168].state = "finished"
    /\ bev.futures[167].state = "running"
    /\ bev.futures[161].state = "running"
    /\ Len(bev.patches) = 160

\* The threads of the pool and the calling thread keep running: a step that
\* stays possible is taken.
SpecPoolFair ==
    /\ SpecPool
    /\ WF_vars(PoolWorkers)
    /\ WF_vars(PoolCollect)
    /\ WF_vars(PoolSubmit \/ PoolShutdown \/ PoolStitch \/ PoolCrop)

(***************************************************************************)
(* C25: the pool of plot_BEV_full has min(8, number of shifts) workers and *)
(* at no moment more than 8 warps are in progress; every shift is          *)
(* processed in the end; the pool is shut down, no warp in progress,       *)
(* before the stitching and the return.                                    *)
(***************************************************************************)
C25_BoundedPool ==
    /\ [](pc = "pool" =>
            /\ Cardinality(Running(bev.futures)) <= 8
            /\ bev.pc # "shifts" =>
                  bev.workers = (IF Len(bev.shift_pairs) < 8
                                 THEN Len(bev.shift_pairs) ELSE 8)
            /\ bev.pc \in {"stitch", "crop", "done"} =>
                  /\ bev.shutdown
                  /\ Running(bev.futures) = {})
    /\ <>(/\ pc = "pool"
          /\ bev.pc = "done"
          /\ Len(bev.futures) = 168
          /\ \A k \in DOMAIN bev.futures : bev.futures[k].state = "finished"
          /\ bev.shutdown)

\* Eight warps are in progress and a ninth shift pair waits for a worker.
C25_Witness ==
    /\ pc = "pool"
    /\ bev.pc = "map"
    /\ Cardinality(Running(bev.futures)) = 8
    /\ \E k \in DOMAIN bev.futures : bev.futures[k].state = "pending"

(***************************************************************************)
(* crop_bottom_to_content on gray images: tuples of at most MaxCropRows    *)
(* rows of 1..MaxCropCols pixels.  A pixel is CropDark or CropBright; the  *)
(* threshold is the default 1, under which CropDark is black, or 2, under  *)
(* which both are.  The function is applied to the image and once more to  *)
(* its own result.                                                         *)
(***************************************************************************)
MaxCropRows == 3
MaxCropCols == 2

\* The default of the parameter threshold, line 173.
default_threshold == 1

CropDark == 1
CropBright == 2

CropImages ==
    UNION {[1..h -> [1..w -> {CropDark, CropBright}]] :
              h \in 0..MaxCropRows, w \in 1..MaxCropCols}

InitCrop ==
    /\ pc = "idle"
    /\ Idle
    /\ InitCalibration
    /\ fn_in \in [f : {"crop_bottom_to_content"}, img : CropImages,
                  threshold : {default_threshold, CropBright}]
    /\ fn_out = <<>>
    /\ calib = <<>>
    /\ cache = <<>>
    /\ bev = <<>>
    /\ train = <<>>

\* crop_bottom_to_content(img, threshold), then the same on the result.
ApplyCrop ==
    /\ pc = "idle"
    /\ fn_in.f = "crop_bottom_to_content"
    /\ Len(fn_out) < 2
    /\ fn_out' = Append(fn_out,
                        crop_bottom_to_content(IF Len(fn_out) = 0 THEN fn_in.img
                                               ELSE fn_out[1],
                                               fn_in.threshold))
    /\ UNCHANGED <<svars, cvars, fn_in, xvars>>

NextCrop == ApplyCrop

SpecCrop == InitCrop /\ [][NextCrop]_vars

\* The row holds a pixel above the threshold.
HasContent(row, threshold) == \E x \in DOMAIN row : row[x] > threshold

(***************************************************************************)
(* C22: crop_bottom_to_content removes every trailing row whose pixels are *)
(* all <= threshold: the result is the input up to its last row holding a  *)
(* pixel above the threshold, so the last row of a non-empty result holds  *)
(* such a pixel, for every image, also one without any such pixel.         *)
(***************************************************************************)
C22_TrailingDarkRowsRemoved ==
    (fn_in.f = "crop_bottom_to_content" /\ Len(fn_out) >= 1) =>
        LET img == fn_in.img
            out == fn_out[1]
        IN  /\ Len(out) <= Len(img)
            /\ out = SubSeq(img, 1, Len(out))
            /\ \A r \in (Len(out) + 1)..Len(img) : ~HasContent(img[r], fn_in.threshold)
            /\ Len(out) > 0 => HasContent(out[Len(out)], fn_in.threshold)

(***************************************************************************)
(* C27: crop_bottom_to_content returns a top row-prefix of its input: the  *)
(* rows kept are those of the input, in order and of the same width; no    *)
(* row holding a pixel above the threshold is removed; cropping the result *)
(* again gives the result.                                                 *)
(***************************************************************************)
C27_CropIsPrefix ==
    (fn_in.f = "crop_bottom_to_content" /\ Len(fn_out) >= 1) =>
        LET img == fn_in.img
            out == fn_out[1]
        IN  /\ Len(out) <= Len(img)
            /\ \A r \in 1..Len(out) : out[r] = img[r] /\ Len(out[r]) = Len(img[r])
            /\ \A r \in 1..Len(img) :
                  HasContent(img[r], fn_in.threshold) => r <= Len(out)
            /\ Len(fn_out) = 2 => fn_out[2] = fn_out[1]

\* An image of three rows, the second and the third black, cropped to its
\* first row and cropped again.
C27_Witness ==
    /\ fn_in.f = "crop_bottom_to_content"
    /\ Len(fn_out) = 2
    /\ Len(fn_in.img) = 3
    /\ Len(fn_out[1]) = 1
    /\ HasContent(fn_in.img[1], fn_in.threshold)

(***************************************************************************)
(* chessboard_tile_width on lists of at most MaxCorners different corners  *)
(* taken from TileCorners, for the chunk lengths of TileCols; then on the  *)
(* same list with two of its entries exchanged (every reordering of a list *)
(* is a chain of such exchanges).                                          *)
(***************************************************************************)
MaxCorners == 4

TileCorners == {<<0, 0>>, <<1, 0>>, <<3, 0>>, <<0, 1>>, <<4, 1>>}

TileCols == {1, 2, 3}

\* The lists of n different corners.
CornerLists(n) ==
    {c \in [1..n -> TileCorners] : \A i \in 1..n : \A j \in 1..n : i # j => c[i] # c[j]}

\* The list with the entries at i and j exchanged.
swapped(corners, i, j) ==
    [k \in DOMAIN corners |->
        IF k = i THEN corners[j] ELSE IF k = j THEN corners[i] ELSE corners[k]]

InitTileWidth ==
    /\ pc = "idle"
    /\ Idle
    /\ InitCalibration
    /\ \E n \in 0..MaxCorners :
          fn_in \in [f : {"chessboard_tile_width"}, corners : CornerLists(n),
                     cb_cols : TileCols,
                     swap : IF n = 0 THEN {<<1, 1>>}
                            ELSE {p \in (1..n) \X (1..n) : p[1] <= p[2]}]
    /\ fn_out = <<>>
    /\ calib = <<>>
    /\ cache = <<>>
    /\ bev = <<>>
    /\ train = <<>>

\* chessboard_tile_width() with self.corners = corners.
ApplyTileWidth ==
    /\ pc = "idle"
    /\ fn_in.f = "chessboard_tile_width"
    /\ Len(fn_out) = 0
    /\ fn_out' = <<chessboard_tile_width(fn_in.corners, fn_in.cb_cols)>>
    /\ UNCHANGED <<svars, cvars, fn_in, xvars>>

\* chessboard_tile_width() with self.corners the reordered list.
ApplyTileWidthSwapped ==
    /\ pc = "idle"
    /\ fn_in.f = "chessboard_tile_width"
    /\ Len(fn_out) = 1
    /\ fn_out' = Append(fn_out,
                        chessboard_tile_width(
                            swapped(fn_in.corners, fn_in.swap[1], fn_in.swap[2]),
                            fn_in.cb_cols))
    /\ UNCHANGED <<svars, cvars, fn_in, xvars>>

NextTileWidth == ApplyTileWidth \/ ApplyTileWidthSwapped

SpecTileWidth == InitTileWidth /\ [][NextTileWidth]_vars

\* The elements of a tuple, as a set.
Range(s) == {s[i] : i \in DOMAIN s}

\* The corners of the list in an order of non-decreasing y.
IsSortedByY(s, corners) ==
    /\ Len(s) = Len(corners)
    /\ Range(s) = Range(corners)
    /\ \A i \in 1..(Len(s) - 1) : s[i][2] <= s[i + 1][2]

(***************************************************************************)
(* C23: chessboard_tile_width cuts the corners sorted by y into            *)
(* consecutive chunks of cb_cols and returns the maximum (not a mean) of   *)
(* the distances between the corners next to each other in x within a     *)
(* chunk; with a multiple of cb_cols corners each corner is in exactly one *)
(* chunk; the result is 0 when no chunk has two corners.                   *)
(***************************************************************************)
C23_TileWidthIsMaxOverChunks ==
    (fn_in.f = "chessboard_tile_width" /\ Len(fn_out) >= 1) =>
        LET corners == fn_in.corners
            cols == fn_in.cb_cols
            n == Len(corners)
            chunks == tile_rows(corners, cols)
            pairs == {<<i, k>> : i \in DOMAIN chunks, k \in 1..(cols - 1)}
            d(x) == dist2(chunks[x[1]][x[2]], chunks[x[1]][x[2] + 1])
        IN  /\ Len(chunks) = n \div cols
            /\ \A i \in DOMAIN chunks :
                  /\ Len(chunks[i]) = cols
                  /\ \A k \in 1..(cols - 1) : chunks[i][k][1] <= chunks[i][k + 1][1]
            /\ \E s \in [1..n -> Range(corners)] :
                  /\ IsSortedByY(s, corners)
                  /\ \A i \in DOMAIN chunks :
                        Range(chunks[i]) = {s[k] : k \in ((i - 1) * cols + 1)..(i * cols)}
            /\ n % cols = 0 =>
                  \A c \in Range(corners) :
                      Cardinality({i \in DOMAIN chunks : c \in Range(chunks[i])}) = 1
            /\ pairs = {} => fn_out[1] = 0
            /\ pairs # {} =>
                  /\ \E x \in pairs : fn_out[1] = d(x)
                  /\ \A x \in pairs : d(x) <= fn_out[1]

\* Two chunks of two corners with different distances, 1 and 16: the
\* maximum 16 is returned, where the mean is 8.
C23_Witness ==
    /\ fn_in.f = "chessboard_tile_width"
    /\ Len(fn_out) >= 1
    /\ fn_in.cb_cols = 2
    /\ fn_in.corners = <<<<4, 1>>, <<0, 0>>, <<0, 1>>, <<1, 0>>>>
    /\ fn_out[1] = 16

(***************************************************************************)
(* C28: chessboard_tile_width gives the same tile width for a list of      *)
(* corners and for the same corners listed in another order, also when     *)
(* corners of different chunks have the same y.                            *)
(***************************************************************************)
C28_TileWidthOrderIndependent ==
    (fn_in.f = "chessboard_tile_width" /\ Len(fn_out) = 2) => fn_out[2] = fn_out[1]

\* The k-th largest number of the set S.
KthLargest(S, k) == CHOOSE v \in S : Cardinality({u \in S : u > v}) = k - 1

C26_IndicesInRange ==
    /\ (pc = "loop" /\ timestep < range_timesteps(history_size, n_timesteps).stop) =>
          (0 <= timestep /\ timestep < n_timesteps)
    /\ (pc = "past" /\ past_hist < range_past(history_size).stop) =>
          /\ 1 <= timestep - past_hist
          /\ timestep - past_hist < n_timesteps
    /\ \A i \in DOMAIN evals :
          /\ \A j \in DOMAIN evals[i] :
                /\ evals[i][j].hist = j
                /\ 1 <= history_size + (i - 1) - evals[i][j].hist
                /\ history_size + (i - 1) - evals[i][j].hist < n_timesteps
          /\ i <= Len(patches) => Len(evals[i]) = history_size - 1
    /\ Len(evals) = Len(AllLists)

\* The call has returned with history_size = 3: timestep 3 was processed
\* and its two past frames, 2 and 1, were read.
C26_Witness ==
    /\ pc = "done"
    /\ history_size = 3
    /\ n_timesteps = 4
    /\ Len(patches) = 1
    /\ Len(evals[1]) = 2

(***************************************************************************)
(* vicreg_dataset.py: stitch_patches_in_grid and validate_vicreg_data, the *)
(* viewer run on the lists ComputeVicRegData has returned.  A patch is an  *)
(* array of shape <<height, width, channels>>; patches[0][0] is its first  *)
(* row, an array of shape <<width, channels>>.  fn_in is the frame of      *)
(* validate_vicreg_data, fn_out the outcomes of its calls of               *)
(* stitch_patches_in_grid.                                                 *)
(***************************************************************************)
\* Line 100: the default of gap_size.
gap_size == 10

\* math.ceil(math.sqrt(n))
ceil_sqrt(n) == CHOOSE c \in 0..n : c * c >= n /\ \A b \in 0..(c - 1) : b * b < n

\* math.ceil(a / b), b > 0
ceil_div(a, b) == (a + b - 1) \div b

\* The shape of array[0].
first_row_shape(shape) == Tail(shape)

\* Lines 113-127: the canvas and the slots <<start_y, start_x, end_y, end_x>>
\* of the patches, the first patch on a row of its own.
grid_layout(k, grid_rows, grid_cols, patch_height, patch_width) ==
    LET grid_height == (grid_rows + 1) * patch_height + grid_rows * gap_size
        w == grid_cols * patch_width + (grid_cols - 1) * gap_size
        grid_width == IF w > patch_width THEN w ELSE patch_width
        slot(idx) ==
            LET row == ((idx - 1) \div grid_cols) + 1
                col == (idx - 1) % grid_cols
                start_y == row * (patch_height + gap_size)
                start_x == col * (patch_width + gap_size)
            IN  <<start_y, start_x, start_y + patch_height, start_x + patch_width>>
    IN  [grid_rows |-> grid_rows, grid_cols |-> grid_cols,
         grid_height |-> grid_height, grid_width |-> grid_width,
         slots |-> [i \in 1..k |-> IF i = 1 THEN <<0, 0, patch_height, patch_width>>
                                   ELSE slot(i - 1)]]

\* Lines 100-129 with grid_size=None.
stitch_patches_in_grid(patch_list) ==
    LET num_patches == Len(patch_list) - 1
        grid_cols == ceil_sqrt(num_patches)
        unpacked == first_row_shape(patch_list[1].shape)
    IN  IF grid_cols = 0
        THEN Raised("ZeroDivisionError")
        ELSE IF Len(unpacked) # 3
        THEN Raised("ValueError")
        ELSE Returned(grid_layout(Len(patch_list), ceil_div(num_patches, grid_cols),
                                  grid_cols, unpacked[1], unpacked[2]))

\* Lines 132-138: history_size, the two prints (vicreg_data[0] is read) and
\* the counter.
ValidateStart ==
    /\ pc = "done"
    /\ fn_in' = [f |-> "validate_vicreg_data", counter |-> 0,
                 history_size |-> n_timesteps - Len(patches)]
    /\ IF Len(patches) = 0
       THEN pc' = "raised" /\ fn_out' = <<Raised("IndexError")>>
       ELSE pc' = "validate" /\ fn_out' = <<>>
    /\ UNCHANGED <<aliased, n_timesteps, history_size, patch_size, odom, odom_raw,
                   timestep, past_hist, cur_rt, cur_rt_ret, past_rt, past_rt_ret,
                   T_rel, R_rel, timestep_patches, patches, evals, cvars, xvars>>

\* Lines 139-150: one round of the loop: the list at counter is stitched and
\* shown, the key read moves the counter.
ValidateStep ==
    /\ pc = "validate"
    /\ LET shown == stitch_patches_in_grid(patches[fn_in.counter + 1])
       IN  /\ fn_out' = Append(fn_out, shown)
           /\ IF shown.raised # "none"
              THEN pc' = "raised" /\ fn_in' = fn_in
              ELSE \E key \in {113, 82, 0} :
                      LET next == IF key = 113 THEN Len(patches)
                                  ELSE IF key = 82
                                  THEN fn_in.counter + fn_in.history_size
                                  ELSE fn_in.counter + 1
                      IN  /\ fn_in' = [fn_in EXCEPT !.counter = next]
                          /\ pc' = IF next < Len(patches) THEN "validate"
                                   ELSE "validated"
    /\ UNCHANGED <<aliased, n_timesteps, history_size, patch_size, odom, odom_raw,
                   timestep, past_hist, cur_rt, cur_rt_ret, past_rt, past_rt_ret,
                   T_rel, R_rel, timestep_patches, patches, evals, cvars, xvars>>

NextValidate == Next \/ ValidateStart \/ ValidateStep

SpecValidate == Init /\ [][NextValidate]_vars

\* Two slots <<y0, x0, y1, x1>> share no pixel.
SlotsDisjoint(a, b) == a[3] <= b[1] \/ b[3] <= a[1] \/ a[4] <= b[2] \/ b[4] <= a[2]

(***************************************************************************)
(* C29: for every list of k >= 1 patches that ComputeVicRegData returns,   *)
(* stitch_patches_in_grid with the default grid_size completes without an  *)
(* error, its grid has grid_rows * grid_cols >= k - 1 cells, the first     *)
(* patch is at the top-left and the patches 2..k are in slots that are     *)
(* pairwise disjoint and inside the canvas.                                *)
(***************************************************************************)
C29_GridStitchCompletes ==
    (pc \in {"validate", "raised", "validated"} /\ Len(patches) > 0) =>
        \A c \in DOMAIN fn_out :
            LET r == fn_out[c]
                g == r.value
            IN  /\ r.raised = "none"
                /\ g.grid_rows * g.grid_cols >= Len(g.slots) - 1
                /\ g.slots[1][1] = 0 /\ g.slots[1][2] = 0
                /\ \A i \in DOMAIN g.slots :
                      /\ 0 <= g.slots[i][1] /\ g.slots[i][3] <= g.grid_height
                      /\ 0 <= g.slots[i][2] /\ g.slots[i][4] <= g.grid_width
                      /\ \A j \in DOMAIN g.slots :
                            i # j => SlotsDisjoint(g.slots[i], g.slots[j])

(***************************************************************************)
(* train_sterling_representations.py: SterlingModel.best_val_loss and      *)
(* on_validation_end over the validation epochs of one training process,   *)
(* in the variable train.  A loss is a number or NaN ([nan |-> TRUE]); the *)
(* trainer ends each validation epoch with a val_loss in its callback      *)
(* metrics and calls the hook; train.call keeps what the last call saw and *)
(* did.  The process runs on one CUDA device.                              *)
(***************************************************************************)
MaxEpochs == 12
MaxLoss == 3

\* Line 53.
initial_best_val_loss == 1000000

Number(x) == [nan |-> FALSE, v |-> x]

NaN == [nan |-> TRUE, v |-> 0]

Losses == {Number(x) : x \in 1..MaxLoss} \cup {NaN}

\* a <= b on tensors: False when one of them is NaN.
tensor_le(a, b) == ~a.nan /\ ~b.nan /\ a.v <= b.v

\* Line 276: val_loss < self.best_val_loss, False when one of them is NaN.
tensor_lt(a, b) == ~a.nan /\ ~b.nan /\ a.v < b.v

\* Lines 270-272: the condition of the hook.
save_epoch(current_epoch, max_epochs, device) ==
    /\ (current_epoch % 10 = 0 \/ current_epoch = max_epochs - 1)
    /\ device = 0

InitTrain ==
    /\ pc = "idle"
    /\ Idle
    /\ InitCalibration
    /\ fn_in = <<>>
    /\ fn_out = <<>>
    /\ calib = <<>>
    /\ cache = <<>>
    /\ bev = <<>>
    /\ train \in [pc : {"epoch"}, current_epoch : {0}, max_epochs : 1..MaxEpochs,
                  device : {0, 1}, best_val_loss : {Number(initial_best_val_loss)},
                  val_loss : {NaN},
                  call : {[epoch |-> -1, val_loss |-> NaN, best_before |-> NaN,
                           save_models |-> FALSE]}]

\* The trainer ends the validation of the current epoch with a val_loss.
ValidationEpoch ==
    /\ train.pc = "epoch"
    /\ \E loss \in Losses :
          train' = [train EXCEPT !.pc = "validation_end", !.val_loss = loss]
    /\ UNCHANGED <<svars, cvars, fvars, calib, cache, bev>>

\* Lines 265-305: on_validation_end.
OnValidationEnd ==
    /\ train.pc = "validation_end"
    /\ LET considered == save_epoch(train.current_epoch, train.max_epochs, train.device)
           val_loss == train.val_loss
           better == considered /\ tensor_lt(val_loss, train.best_val_loss)
       IN  train' = [train EXCEPT
                        !.pc = "epoch_end",
                        !.best_val_loss = IF better THEN val_loss ELSE @,
                        !.call = [epoch |-> train.current_epoch,
                                  val_loss |-> val_loss,
                                  best_before |-> train.best_val_loss,
                                  save_models |-> better]]
    /\ UNCHANGED <<svars, cvars, fvars, calib, cache, bev>>

\* The trainer goes to the next epoch, until max_epochs.
NextEpoch ==
    /\ train.pc = "epoch_end"
    /\ train.current_epoch < train.max_epochs - 1
    /\ train' = [train EXCEPT !.pc = "epoch", !.current_epoch = @ + 1]
    /\ UNCHANGED <<svars, cvars, fvars, calib, cache, bev>>

NextTrain == ValidationEpoch \/ OnValidationEnd \/ NextEpoch

SpecTrain == InitTrain /\ [][NextTrain]_vars

(***************************************************************************)
(* C30: best_val_loss never increases over the validation epochs;          *)
(* save_models is called at the end of a validation epoch only if the      *)
(* epoch is a multiple of 10 or the last one, the device is 0 and the      *)
(* val_loss of the epoch is strictly below best_val_loss, which then       *)
(* becomes that val_loss.                                                  *)
(***************************************************************************)
C30_BestValLossMonotone ==
    /\ [][train'.best_val_loss = train.best_val_loss
          \/ tensor_lt(train'.best_val_loss, train.best_val_loss)]_vars
    /\ [](train.call.epoch >= 0 =>
            /\ train.call.save_models =>
                  /\ train.call.epoch % 10 = 0 \/ train.call.epoch = train.max_epochs - 1
                  /\ train.device = 0
                  /\ ~train.call.val_loss.nan
                  /\ train.call.val_loss.v < train.call.best_before.v
                  /\ train.best_val_loss = train.call.val_loss
            /\ ~train.call.save_models => train.best_val_loss = train.call.best_before)

\* The model is saved at the end of epoch 10 with val_loss 1, after it was
\* saved with val_loss 3 before; the run has one more epoch to go.
C30_Witness ==
    /\ train.pc = "epoch_end"
    /\ train.max_epochs = 12
    /\ train.call.epoch = 10
    /\ train.call.save_models
    /\ train.call.best_before = Number(3)
    /\ train.best_val_loss = Number(1)

====
